---------------------------- MODULE Spec2Model ----------------------------
(***************************************************************************)
(* Bits of Time: an electronic sandglass on two 8x8 bi-colour LED blocks.  *)
(* The model follows src/Bits_of_Time.cpp (main loop, grain simulation,    *)
(* pseudo random generator, refresh interrupt) and src/dot_matrix.cpp      *)
(* (frame buffer and display engine) for the build that the sources        *)
(* configure: NUM_BLOCKS_X = 2, NUM_BLOCKS_Y = 1, no hidden screen.  The   *)
(* display library is also followed on its own, with and without           *)
(* ENABLE_HIDDEN_SCREEN.                                                   *)
(***************************************************************************)
EXTENDS Integers, Sequences, FiniteSets, TLC

(***************************************************************************)
(* Program constants.                                                      *)
(***************************************************************************)
GRAINS_TOTAL == 54
DM_REFRESH_FREQ == 2500
SIM_SPEED == 10
MAX_MINUTES == 5

DOWN == 0
UP == 1

UPPER == 0
LOWER == 1

SET == 0
RUN == 1
ALARM == 2

POLYNOMIAL == 14
RANDOM_SEED == 120

VISIBLE == 0
HIDDEN == 1

BLACK == 0
YELLOW == 7
ORANGE == 15
DEFAULT_COLOR == ORANGE

OPAQUE == 0
TRANSPARENT == 1
XOR == 2

NUM_BLOCKS_X == 2
NUM_BLOCKS_Y == 1
COLS_PER_BLOCK == 8
ROWS_PER_BLOCK == 8
NUM_BLOCKS == NUM_BLOCKS_X * NUM_BLOCKS_Y
NUM_PIXCOLS == NUM_BLOCKS * COLS_PER_BLOCK
DIM_X == NUM_BLOCKS_X * COLS_PER_BLOCK
DIM_Y == NUM_BLOCKS_Y * ROWS_PER_BLOCK
MAX_BRIGHTNESS == 3

\* widths of the integer types of the target (uint8_t, uint16_t)
U8 == 256
U16 == 65536

(***************************************************************************)
(* Bounds of the exploration (not program constants).                      *)
(***************************************************************************)
\* refresh interrupts that fall into one pass of the main loop, apart from
\* those that fall into its calls of wait()
LoopTicks == 1

\* tilts, button presses and torn reads followed in one behaviour
MaxEvents == 1

\* passes followed after the latest tilt, button press or torn read
MaxAfter == 2

\* outputs of random() followed
MaxDraws == 256

\* refreshes followed by the display harness
MaxRefresh == 40

\* tilts and button presses followed in one behaviour of the mode machine
MaxPresses == 3

\* passes of the mode machine followed after start-up, after the alarm and
\* after the latest tilt or button press
ModeAfter == 1

\* how far beyond the display the coordinates and offsets tried reach (the
\* value 255 is tried as well)
Far == 1

(***************************************************************************)
(* Bit helpers for the 16-bit planes.  m is a one-bit mask (a power of 2). *)
(***************************************************************************)
Bit(w, m) == (w \div m) % 2

RECURSIVE BitXor(_, _, _)
BitXor(a, b, n) ==
    IF n = 0 THEN 0
    ELSE (((a % 2) + (b % 2)) % 2) + 2 * BitXor(a \div 2, b \div 2, n - 1)

RECURSIVE BitAnd(_, _, _)
BitAnd(a, b, n) ==
    IF n = 0 THEN 0
    ELSE ((a % 2) * (b % 2)) + 2 * BitAnd(a \div 2, b \div 2, n - 1)

RECURSIVE BitOr(_, _, _)
BitOr(a, b, n) ==
    IF n = 0 THEN 0
    ELSE (IF (a % 2) + (b % 2) > 0 THEN 1 ELSE 0)
           + 2 * BitOr(a \div 2, b \div 2, n - 1)

\* ~w and w << k in 16 bits
BitNot(w) == U16 - 1 - w

Shl(w, k) == (w * 2 ^ k) % U16

(***************************************************************************)
(* The statements of a handler are composed as operators from state to     *)
(* state.  An operator that reads its state argument more than once binds  *)
(* it first, so that the argument is evaluated one time only:              *)
(* Only({F(s) : s \in {e}}) is F(e).                                       *)
(***************************************************************************)
Only(S) == CHOOSE v \in S : TRUE

(***************************************************************************)
(* dot_matrix.cpp: frame buffer.                                           *)
(* A screen is the array DotMatrix::screen of NUM_PIXCOLS pixel columns,   *)
(* each a record [lsb, msb] of 16-bit planes.  Without the hidden screen   *)
(* scr_vis, scr_hid and scr_wrk all point to screen[0].                    *)
(***************************************************************************)
pixcol_mask(i) == 4 ^ i

clearScreen(scr) == [i \in 1 .. NUM_PIXCOLS |-> [lsb |-> 0, msb |-> 0]]

\* setPixel that sets the bits of the colour without clearing the pixel
setPixel_or(scr, x, y, color) ==
    IF x >= DIM_X \/ y >= DIM_Y THEN scr
    ELSE LET mask_green == pixcol_mask(y % ROWS_PER_BLOCK)
             mask_red   == 2 * mask_green
             idx        == x + (y \div ROWS_PER_BLOCK) * DIM_X + 1
             Set(w, on, m) == IF on = 1 /\ Bit(w, m) = 0 THEN w + m ELSE w
         IN  [scr EXCEPT ![idx] =
                [lsb |-> Set(Set(@.lsb, Bit(color, 1), mask_green),
                             Bit(color, 4), mask_red),
                 msb |-> Set(Set(@.msb, Bit(color, 2), mask_green),
                             Bit(color, 8), mask_red)]]

setPixel(scr, x, y, color) ==
    IF x >= DIM_X \/ y >= DIM_Y THEN scr
    ELSE LET mask_green == pixcol_mask(y % ROWS_PER_BLOCK)
             mask_red   == 2 * mask_green
             idx        == x + (y \div ROWS_PER_BLOCK) * DIM_X + 1
             Clear(w)   == w - Bit(w, mask_red) * mask_red
                             - Bit(w, mask_green) * mask_green
             msb == Clear(scr[idx].msb) + Bit(color, 2) * mask_green
                                        + Bit(color, 8) * mask_red
             lsb == Clear(scr[idx].lsb) + Bit(color, 1) * mask_green
                                        + Bit(color, 4) * mask_red
         IN  [scr EXCEPT ![idx] = [lsb |-> lsb, msb |-> msb]]

\* getPixel without the check of y
getPixel_any_row(scr, x, y, vis_hid) ==
    IF x >= DIM_X THEN 255
    ELSE IF vis_hid # VISIBLE /\ vis_hid # HIDDEN THEN 255
    ELSE LET mask_green == pixcol_mask(y % ROWS_PER_BLOCK)
             mask_red   == 2 * mask_green
             idx        == x + 1
         IN  8 * Bit(scr[idx].msb, mask_red) + 2 * Bit(scr[idx].msb, mask_green)
           + 4 * Bit(scr[idx].lsb, mask_red) + Bit(scr[idx].lsb, mask_green)

getPixel(scr, x, y, vis_hid) ==
    IF x >= DIM_X \/ y >= DIM_Y THEN 255
    ELSE IF vis_hid # VISIBLE /\ vis_hid # HIDDEN THEN 255
    ELSE LET mask_green == pixcol_mask(y % ROWS_PER_BLOCK)
             mask_red   == 2 * mask_green
             idx        == x + (y \div ROWS_PER_BLOCK) * DIM_X + 1
         IN  8 * Bit(scr[idx].msb, mask_red) + 2 * Bit(scr[idx].msb, mask_green)
           + 4 * Bit(scr[idx].lsb, mask_red) + Bit(scr[idx].lsb, mask_green)

\* dot_matrix.h: the graphic that main() paints first, 8 pixel columns as
\* pairs of words lsb, msb
rainbow ==
    <<60960, 64128, 31624, 65184, 57058, 32680, 30648, 24554,
      7662, 22522, 18299, 5630, 4574, 1407, 1143, 351>>

\* setPixCol, the mask of TRANSPARENT mode (lines 445-447)
transparent_mask(pc) ==
    LET m0 == BitOr(pc.lsb, pc.msb, 16)
        m1 == BitOr(m0, BitAnd(m0 \div 2, 21845, 16), 16)
    IN  BitOr(m1, Shl(m1, 1), 16)

\* setPixCol that clears the target rows in XOR mode too
setPixCol_clearing(scr, x, y, pc, mode) ==
    IF x >= DIM_X \/ y >= DIM_Y THEN scr
    ELSE LET idx  == x + (y \div ROWS_PER_BLOCK) * DIM_X + 1
             yr   == y % ROWS_PER_BLOCK
             mask == BitNot(Shl(IF mode = TRANSPARENT THEN transparent_mask(pc)
                                ELSE U16 - 1,
                                2 * yr))
             lsb  == Shl(pc.lsb, 2 * yr)
             msb  == Shl(pc.msb, 2 * yr)
         IN  [scr EXCEPT ![idx] =
                [lsb |-> BitOr(BitAnd(@.lsb, mask, 16), lsb, 16),
                 msb |-> BitOr(BitAnd(@.msb, mask, 16), msb, 16)]]

\* setPixCol on the working screen scr.  The words mask, pixel_lsb and
\* pixel_msb are the low halves of 32-bit unions whose high halves are not
\* initialised; the high halves are written to column idx + DIM_X, which
\* with NUM_BLOCKS_Y = 1 lies beyond the screen, so that the function
\* returns (line 475) before it uses them.
setPixCol(scr, x, y, pc, mode) ==
    IF x >= DIM_X \/ y >= DIM_Y THEN scr
    ELSE LET idx  == x + (y \div ROWS_PER_BLOCK) * DIM_X + 1
             yr   == y % ROWS_PER_BLOCK
             mask == BitNot(Shl(IF mode = TRANSPARENT THEN transparent_mask(pc)
                                ELSE U16 - 1,
                                2 * yr))
             lsb  == Shl(pc.lsb, 2 * yr)
             msb  == Shl(pc.msb, 2 * yr)
         IN  [scr EXCEPT ![idx] =
                IF mode = XOR
                THEN [lsb |-> BitXor(@.lsb, lsb, 16),
                      msb |-> BitXor(@.msb, msb, 16)]
                ELSE [lsb |-> BitOr(BitAnd(@.lsb, mask, 16), lsb, 16),
                      msb |-> BitOr(BitAnd(@.msb, mask, 16), msb, 16)]]

\* displayGraphics from column i on (FLASH or RAM): graphics holds the
\* words lsb, msb of column i at 2i + 1 and 2i + 2
RECURSIVE graphics_from(_, _, _, _, _, _, _)
graphics_from(scr, x, y, mode, graphics, len, i) ==
    IF i >= len THEN scr
    ELSE graphics_from(setPixCol(scr, (x + i) % U8, y,
                                 [lsb |-> graphics[2 * i + 1],
                                  msb |-> graphics[2 * i + 2]],
                                 mode),
                       x, y, mode, graphics, len, i + 1)

displayGraphics(scr, x, y, mode, graphics, len) ==
    graphics_from(scr, x, y, mode, graphics, len, 0)

\* fonts.h: fonttable holds font_diagonal_ccw and font_diagonal_cw
NUMBER_OF_FONTS == 2

\* The font files font_diagonal_ccw.h and font_diagonal_cw.h are not in the
\* source tree.  A font is taken as fontparams describes it, a first
\* character code and a number of characters, and a character as its
\* columns, 8-bit masks whose number is the width: here two columns that
\* tell the font and the character.
font_char(f, ch) == <<129 + f, (2 * ch + 1) % U8>>

\* pattern2PixCol, lines 399-405: a 0 is put to the right of each of the n
\* low bits of d, e. g. 11011111 -> 1010001010101010
RECURSIVE spread(_, _)
spread(d, n) ==
    IF n = 0 THEN 0 ELSE 2 * (d % 2) + 4 * spread(d \div 2, n - 1)

\* pattern2PixCol: the colour bits say which planes get the spread pattern
\* (red) and which the pattern >> 1 (green)
pattern2PixCol(pix_data, color) ==
    Only({ [msb |-> BitOr(IF Bit(color, 2) = 1 THEN sh \div 2 ELSE 0,
                          IF Bit(color, 8) = 1 THEN sh ELSE 0, 16),
            lsb |-> BitOr(IF Bit(color, 1) = 1 THEN sh \div 2 ELSE 0,
                          IF Bit(color, 4) = 1 THEN sh ELSE 0, 16)]
           : sh \in {spread(pix_data, 8)} })

\* displayText, the while loop (lines 284-327), d holding its locals: the
\* working screen scr, the index i of the next character of st, the columns
\* p of the character not yet read, and the columns written so far (cols:
\* for each the character code and the font, colour and inversion flag in
\* force).  fontparams holds the first character code and the number of
\* characters of font f at 2f + 1 and 2f + 2.
RECURSIVE text_loop(_, _, _, _, _, _, _)
text_loop(d0, y, mode, st, text_column, sc_end, fontparams) ==
    Only({
      IF d.sc >= sc_end THEN [d EXCEPT !.ret = 0]
      ELSE Only({
        IF e.w = 0
        THEN \* a character was read that is a command or out of range
             IF e.ch = 0 THEN [d EXCEPT !.ret = 1]
             ELSE text_loop(e, y, mode, st, text_column, sc_end, fontparams)
        ELSE IF e.tc >= text_column
        THEN text_loop(
               [e EXCEPT
                  !.scr = setPixCol(e.scr, e.sc, y,
                                    pattern2PixCol(
                                       IF e.invert # 0 THEN U8 - 1 - Head(e.p)
                                       ELSE Head(e.p),
                                       e.color),
                                    mode),
                  !.cols = Append(@, [code |-> e.ch, font |-> e.font,
                                      color |-> e.color,
                                      invert |-> e.invert]),
                  !.p = Tail(@),
                  !.sc = (@ + 1) % U8,
                  !.w = @ - 1],
               y, mode, st, text_column, sc_end, fontparams)
        ELSE IF text_column >= e.tc + e.w
        THEN text_loop([e EXCEPT !.tc = (@ + e.w) % U16, !.w = 0],
                       y, mode, st, text_column, sc_end, fontparams)
        ELSE text_loop([e EXCEPT !.tc = (@ + 1) % U16, !.p = Tail(@),
                                 !.w = @ - 1],
                       y, mode, st, text_column, sc_end, fontparams)
        : e \in {
            IF d.w # 0 THEN d
            ELSE LET ch == st[d.i]
                     n  == [d EXCEPT !.i = @ + 1, !.ch = ch]
                 IN  IF ch < 32
                     THEN IF ch = 0 THEN n
                          ELSE IF ch <= NUMBER_OF_FONTS
                          THEN [n EXCEPT !.font = ch - 1,
                                         !.char_base = fontparams[2 * ch - 1],
                                         !.num_of_chars = fontparams[2 * ch]]
                          ELSE IF ch >= 16
                          THEN IF ch = 16
                               THEN [n EXCEPT !.invert = U8 - 1 - @]
                               ELSE [n EXCEPT !.color = ch % 16]
                          ELSE n
                     ELSE IF ch < d.char_base THEN n
                     ELSE IF ch - d.char_base >= d.num_of_chars THEN n
                     ELSE Only({ [n EXCEPT !.p = g, !.w = Len(g)]
                                 : g \in {font_char(d.font,
                                                    ch - d.char_base)} }) } })
      : d \in {d0} })

\* displayText on the working screen scr, for a text st that ends with the
\* character 0: [scr, ret, cols]
displayText(scr, x, y, mode, st, text_column, len, fontparams) ==
    text_loop([scr |-> scr, sc |-> x, tc |-> 0, w |-> 0, i |-> 1, ch |-> 0,
               invert |-> 0, color |-> DEFAULT_COLOR, font |-> 0,
               char_base |-> fontparams[1], num_of_chars |-> fontparams[2],
               p |-> << >>, cols |-> << >>, ret |-> 0],
              y, mode, st, text_column,
              IF DIM_X - x >= len THEN x + len ELSE DIM_X, fontparams)

\* The pointers scr_vis, scr_hid and scr_wrk are modelled as indices into
\* DotMatrix::screen: 0, or NUM_PIXCOLS with ENABLE_HIDDEN_SCREEN.
\* init(): the pointers after it; en tells whether ENABLE_HIDDEN_SCREEN is
\* defined.  Both screens are cleared.
init(en) ==
    [scr_vis |-> 0, scr_hid |-> IF en THEN NUM_PIXCOLS ELSE 0, scr_wrk |-> 0]

selectScreen(p, vis_hid) ==
    IF vis_hid = VISIBLE THEN [p EXCEPT !.scr_wrk = p.scr_vis]
    ELSE IF vis_hid = HIDDEN THEN [p EXCEPT !.scr_wrk = p.scr_hid]
    ELSE p

\* swapScreen that leaves scr_wrk as it is
swapScreen_keeping(p) ==
    [scr_vis |-> p.scr_hid, scr_hid |-> p.scr_vis, scr_wrk |-> p.scr_wrk]

\* swapScreen without the else branch
swapScreen_no_else(p) ==
    [scr_vis |-> p.scr_hid, scr_hid |-> p.scr_vis,
     scr_wrk |-> IF p.scr_wrk = p.scr_hid THEN p.scr_vis ELSE p.scr_wrk]

\* swapScreen: scr_wrk is compared with the new scr_vis
swapScreen(p) ==
    [scr_vis |-> p.scr_hid, scr_hid |-> p.scr_vis,
     scr_wrk |-> IF p.scr_wrk = p.scr_hid THEN p.scr_vis ELSE p.scr_hid]

setOffset(offset0, col) == IF col < NUM_PIXCOLS THEN col ELSE offset0

\* update with MSB OR LSB in both even sub-frames
emitted_or_even(br_msb, br_lsb, bc) ==
    IF bc % 2 = 1 THEN BitAnd(br_msb, br_lsb, 16)
    ELSE BitOr(br_msb, br_lsb, 16)

\* update, lines 196-200: the word shifted out for the planes br_msb and
\* br_lsb in sub-frame bc
emitted(br_msb, br_lsb, bc) ==
    IF bc % 2 = 1 THEN BitAnd(br_msb, br_lsb, 16)
    ELSE IF bc = 0 THEN BitOr(br_msb, br_lsb, 16)
    ELSE br_msb

\* update, lines 182-188 and 194-195: the index of scr_vis that iteration b
\* of the loop reads (b = 0 is the rightmost PixBlock); c is a uint8_t
RECURSIVE read_index(_, _, _)
read_index(off, col, b) ==
    IF b = 0
    THEN LET c == NUM_PIXCOLS - COLS_PER_BLOCK + off
         IN  (IF c >= NUM_PIXCOLS THEN c - NUM_PIXCOLS ELSE c) + col
    ELSE LET c == (read_index(off, col, b - 1) + U8 - COLS_PER_BLOCK) % U8
         IN  IF c >= NUM_PIXCOLS THEN (c + NUM_PIXCOLS) % U8 ELSE c

\* update without `bright_cnt &= MAX_BRIGHTNESS`
update_unmasked(col, bc) ==
    [bright_cnt |-> IF col = 0 THEN (bc + U8 - 1) % U8 ELSE bc,
     column |-> (col + 1) % COLS_PER_BLOCK]

\* update, lines 176-179 and 215-216: the sub-frame counter and the column
\* cursor after a refresh that finds them as bc and col
update(col, bc) ==
    [bright_cnt |-> IF col = 0 THEN ((bc + U8 - 1) % U8) % (MAX_BRIGHTNESS + 1)
                    ELSE bc,
     column |-> (col + 1) % COLS_PER_BLOCK]

(***************************************************************************)
(* Program state.                                                          *)
(***************************************************************************)
VARIABLES
    screen,          \* DotMatrix::screen, the pixel columns of the display
    column,          \* DotMatrix::column, column cursor of the refresh
    bright_cnt,      \* DotMatrix::bright_cnt, sub-frame counter of the refresh
    timer,           \* software timer, incremented by the refresh interrupt
    gravity,         \* direction of gravity
    sensor,          \* stored state of the inclination sensor (0 or 1)
    sim_speed,       \* pause of the grain animation, in ms
    rnd,             \* random(): static rnd
    side,            \* simulate_grain(): static side
    static_counter,  \* simulate_grain(): static static_counter
    minute,          \* main(): minute
    quarter,         \* main(): quarter
    mode,            \* main(): mode
    drop_cycle,      \* main(): drop_cycle
    last_drop,       \* main(): last_drop
    pc               \* position of main(): "loop" at the top of while(1),
                     \* "alarm" where simulate_grain has just returned 255;
                     \* where the handlers of a pass are followed one by
                     \* one also "s1", "s2", "s3" before the test of that
                     \* push button and "blocks" before line 563

\* history of the run, kept beside the program state
VARIABLES
    inputs,          \* tilts and button presses so far
    torn,            \* torn reads of timer so far
    horizon,         \* passes still followed after an input or a torn
                     \* read; -1 while there has been none
    since_xfer,      \* interrupts since the latest transfer of a grain in
                     \* this run; -1 before the first one
    gap,             \* interrupts between the latest two transfers of this
                     \* run; -1 before the second one
    chk              \* the check of the drop cycle in the latest step:
                     \*   diff   (value read from timer - last_drop) mod
                     \*          2^16, or -1 if the step made no check
                     \*   ready  exit cell occupied and entry cell empty
                     \*   moved  the frame buffer changed in lines 570-573
                     \*   since  interrupts since the latest transfer, -1
                     \*          if there was none in this run
                     \* and of the checks that found it expired:
                     \*   tried  interrupts since the latest one; -1
                     \*          before the first one
                     \*   idle   the latest one moved no grain
                     \*   lap    interrupts between the latest two; -1
                     \*          before the second one
                     \*   held   the earlier of the latest two moved no
                     \*          grain

\* state of the harnesses that exercise random() and the coordinate
\* transform on their own
VARIABLES
    seed0,           \* the state from which the outputs are counted
    outs,            \* the outputs of random() since, in order
    painted          \* number of bulb cells painted so far

\* the rest of the state of DotMatrix
VARIABLES
    offset,          \* DotMatrix::offset, the scroll offset
    scr_vis,         \* visible screen: index into DotMatrix::screen
    scr_hid,         \* hidden screen
    scr_wrk,         \* working screen
    screen2          \* DotMatrix::screen[NUM_PIXCOLS ...], the second half
                     \* of the array with ENABLE_HIDDEN_SCREEN; << >>
                     \* without it, as in the build of the sources

\* state of the harness that exercises the display library on its own
VARIABLES
    call,            \* the latest call: its name, its arguments and the
                     \* pointers and screens that it found
    strobes,         \* the refreshes so far: for each the column cursor
                     \* that it found and the sub-frame that it showed
    shifted          \* the latest refresh: for each iteration of its loop
                     \* the index and the planes read and the word
                     \* shifted out

progvars == <<screen, column, bright_cnt, timer, gravity, sensor, sim_speed,
              rnd, side, static_counter, minute, quarter, mode, drop_cycle,
              last_drop, pc>>

histvars == <<inputs, torn, horizon, since_xfer, gap, chk>>

testvars == <<seed0, outs, painted>>

libvars == <<offset, scr_vis, scr_hid, scr_wrk, screen2>>

dispvars == <<call, strobes, shifted>>

vars == <<progvars, histvars, testvars, libvars, dispvars>>

\* the program state as one record, so that the statements of a handler
\* compose in program order
Cur ==
    [screen |-> screen, column |-> column, bright_cnt |-> bright_cnt,
     timer |-> timer, gravity |-> gravity, sensor |-> sensor,
     sim_speed |-> sim_speed, rnd |-> rnd, side |-> side,
     static_counter |-> static_counter, minute |-> minute,
     quarter |-> quarter, mode |-> mode, drop_cycle |-> drop_cycle,
     last_drop |-> last_drop, pc |-> pc]

Becomes(s) ==
    /\ screen' = s.screen
    /\ column' = s.column
    /\ bright_cnt' = s.bright_cnt
    /\ timer' = s.timer
    /\ gravity' = s.gravity
    /\ sensor' = s.sensor
    /\ sim_speed' = s.sim_speed
    /\ rnd' = s.rnd
    /\ side' = s.side
    /\ static_counter' = s.static_counter
    /\ minute' = s.minute
    /\ quarter' = s.quarter
    /\ mode' = s.mode
    /\ drop_cycle' = s.drop_cycle
    /\ last_drop' = s.last_drop
    /\ pc' = s.pc

(***************************************************************************)
(* Refresh interrupt ISR(TIM1_COMPA_vect): timer++ and DotMatrix::update() *)
(* (without the pin activity).  Interrupts(s0, n) is the state after n     *)
(* interrupts in a row: update() decrements bright_cnt (mod 4) whenever it *)
(* starts with column = 0 and then advances column (mod COLS_PER_BLOCK).   *)
(***************************************************************************)
Interrupts(s0, n) ==
    Only({ LET zeros == (s.column + n + COLS_PER_BLOCK - 1) \div COLS_PER_BLOCK
                        - (s.column + COLS_PER_BLOCK - 1) \div COLS_PER_BLOCK
           IN  [s EXCEPT !.timer = (s.timer + n) % U16,
                         !.column = (s.column + n) % COLS_PER_BLOCK,
                         !.bright_cnt = (s.bright_cnt + MAX_BRIGHTNESS * zeros)
                                           % (MAX_BRIGHTNESS + 1)]
           : s \in {s0} })

\* wait(ms) returns when timer equals the alarm value timer + 2.5 * ms
\* (16-bit arithmetic): that many interrupts pass.  The reads of timer in
\* wait are taken as intact; a torn one changes the length of the pause.
wait(s, ms) == Interrupts(s, (2 * ms + ms \div 2) % U16)

(***************************************************************************)
(* Bits_of_Time.cpp: bulb coordinates, generator, grains.                  *)
(***************************************************************************)
\* the coordinate transform of get_pixel and set_pixel
\* phys_x without the step to the other block
phys_x_same_block(x, bulb, g) == IF g = UP THEN 7 - x ELSE x

phys_x(x, bulb, g) ==
    LET fx == IF g = UP THEN 7 - x ELSE x
    IN  IF bulb # g THEN fx + 8 ELSE fx

\* phys_y without the turn
phys_y_unturned(y, g) == y

phys_y(y, g) == IF g = UP THEN 7 - y ELSE y

\* get_pixel without the check of the range
get_pixel_unchecked(s, x, y, bulb) ==
    getPixel(s.screen, phys_x(x, bulb, s.gravity) % U8,
             phys_y(y, s.gravity) % U8, VISIBLE)

get_pixel(s, x, y, bulb) ==
    IF x > 7 \/ y > 7 THEN 255
    ELSE getPixel(s.screen, phys_x(x, bulb, s.gravity), phys_y(y, s.gravity),
                  VISIBLE)

set_pixel(s0, x, y, bulb, color) ==
    IF x > 7 \/ y > 7 THEN s0
    ELSE Only({ [s EXCEPT !.screen = setPixel(s.screen,
                                              phys_x(x, bulb, s.gravity),
                                              phys_y(y, s.gravity), color)]
                : s \in {s0} })

\* lfsr with the feedback POLYNOMIAL << 1, the `| 1` left out
lfsr_even(r) ==
    IF r >= 128 THEN BitXor((2 * r) % U8, 2 * POLYNOMIAL, 8)
    ELSE (2 * r) % U8

\* one step of the shift register: rnd <<= 1, with the feedback
\* (POLYNOMIAL << 1) | 1 when the MSB was set
lfsr(r) ==
    IF r >= 128 THEN BitXor((2 * r) % U8, 2 * POLYNOMIAL + 1, 8)
    ELSE (2 * r) % U8

\* random that does not take the seed
random_unseeded(r, seed) ==
    IF r >= 128 THEN BitXor((2 * r) % U8, 2 * POLYNOMIAL + 1, 8)
    ELSE (2 * r) % U8

\* random(seed): the new value of the static rnd, which is also returned
random(r, seed) == lfsr(IF seed # 0 THEN seed ELSE r)

\* fill_bulb: the inner loop from x on, in row y
RECURSIVE fill_x(_, _, _, _)
fill_x(s0, bulb, y, x) ==
    IF x = 8 THEN s0
    ELSE Only({ fill_x(IF x + y > 3
                       THEN wait(set_pixel(s, x, y, bulb, YELLOW), 8)
                       ELSE s,
                       bulb, y, x + 1)
                : s \in {s0} })

\* fill_bulb: the outer loop from y on
RECURSIVE fill_y(_, _, _)
fill_y(s0, bulb, y) ==
    IF y = 8 THEN s0
    ELSE Only({ fill_y(s, bulb, y + 1) : s \in {fill_x(s0, bulb, y, 0)} })

fill_bulb(s, bulb) == fill_y(s, bulb, 0)

\* move_grain that leaves the grain at the old position as well
move_grain_keeping(s0, x1, y1, x2, y2, bulb) ==
    Only({ IF get_pixel(s, x2, y2, bulb) = BLACK
           THEN [moved |-> TRUE,
                 st |-> wait(set_pixel(wait(s, s.sim_speed),
                                       x2, y2, bulb, ORANGE),
                             s.sim_speed)]
           ELSE [moved |-> FALSE, st |-> s]
           : s \in {s0} })

\* move_grain: [moved, st]
move_grain(s0, x1, y1, x2, y2, bulb) ==
    Only({ IF get_pixel(s, x2, y2, bulb) = BLACK
           THEN [moved |-> TRUE,
                 st |-> wait(set_pixel(wait(set_pixel(s, x1, y1, bulb, BLACK),
                                            s.sim_speed),
                                       x2, y2, bulb, ORANGE),
                             s.sim_speed)]
           ELSE [moved |-> FALSE, st |-> s]
           : s \in {s0} })

\* static_counter = 0 and static_counter++
Reset(s) == [s EXCEPT !.static_counter = 0]

Count(s) == [s EXCEPT !.static_counter = (@ + 1) % U8]

\* try_sides that counts a grain at rest in the upper bulb as well
try_sides_counting(flip, side0, x, y, bulb) ==
    Only({ IF fst.moved THEN [fst.st EXCEPT !.static_counter = 0]
           ELSE Only({ IF snd.moved THEN [snd.st EXCEPT !.static_counter = 0]
                       ELSE set_pixel([flip EXCEPT !.static_counter =
                                                      (@ + 1) % U8],
                                      x, y, bulb, YELLOW)
                       : snd \in { IF side0 # 0
                                   THEN move_grain(flip, x, y, x, y + 1, bulb)
                                   ELSE move_grain(flip, x, y, x + 1, y, bulb) } })
           : fst \in { IF side0 # 0
                       THEN move_grain(flip, x, y, x + 1, y, bulb)
                       ELSE move_grain(flip, x, y, x, y + 1, bulb) } })

\* try_sides that tries (x+1, y) first whatever the flag
try_sides_one_order(flip, side0, x, y, bulb) ==
    Only({ IF fst.moved THEN Reset(fst.st)
           ELSE Only({ IF snd.moved THEN Reset(snd.st)
                       ELSE set_pixel(IF bulb = LOWER THEN Count(flip)
                                      ELSE Reset(flip),
                                      x, y, bulb, YELLOW)
                       : snd \in { move_grain(flip, x, y, x, y + 1, bulb) } })
           : fst \in { move_grain(flip, x, y, x + 1, y, bulb) } })

\* simulate_grain from the `if (side)` on, `flip` being the state with side
\* changed: with side # 0 (x+1, y) is tried first, then (x, y+1); with
\* side = 0 the reverse
try_sides(flip, side0, x, y, bulb) ==
    Only({ IF fst.moved THEN Reset(fst.st)
           ELSE Only({ IF snd.moved THEN Reset(snd.st)
                       ELSE set_pixel(IF bulb = LOWER THEN Count(flip)
                                      ELSE Reset(flip),
                                      x, y, bulb, YELLOW)
                       : snd \in { IF side0 # 0
                                   THEN move_grain(flip, x, y, x, y + 1, bulb)
                                   ELSE move_grain(flip, x, y, x + 1, y, bulb) } })
           : fst \in { IF side0 # 0
                       THEN move_grain(flip, x, y, x + 1, y, bulb)
                       ELSE move_grain(flip, x, y, x, y + 1, bulb) } })

\* simulate_grain that counts a moved grain as at rest
simulate_grain_counting(s0, xin, yin, bulb) ==
    Only({ IF get_pixel(s, xin % 8, yin % 8, bulb) = BLACK THEN Count(s)
           ELSE Only({ IF diag.moved THEN Count(diag.st)
                       ELSE try_sides([s EXCEPT !.side = 1 - @], s.side,
                                      xin % 8, yin % 8, bulb)
                       : diag \in { move_grain(s, xin % 8, yin % 8,
                                               (xin % 8) + 1, (yin % 8) + 1,
                                               bulb) } })
           : s \in {s0} })

\* simulate_grain: the state after the call; the value returned is the
\* new static_counter
simulate_grain(s0, xin, yin, bulb) ==
    Only({ IF get_pixel(s, xin % 8, yin % 8, bulb) = BLACK THEN Count(s)
           ELSE Only({ IF diag.moved THEN Reset(diag.st)
                       ELSE try_sides([s EXCEPT !.side = 1 - @], s.side,
                                      xin % 8, yin % 8, bulb)
                       : diag \in { move_grain(s, xin % 8, yin % 8,
                                               (xin % 8) + 1, (yin % 8) + 1,
                                               bulb) } })
           : s \in {s0} })

\* drop that leaves the grain in the exit cell as well
drop_keeping(s0) ==
    Only({ IF get_pixel(s, 7, 7, UPPER) = BLACK THEN s
           ELSE IF get_pixel(s, 0, 0, LOWER) = BLACK
                THEN set_pixel(s, 0, 0, LOWER, ORANGE)
                ELSE s
           : s \in {s0} })

drop(s0) ==
    Only({ IF get_pixel(s, 7, 7, UPPER) = BLACK THEN s
           ELSE IF get_pixel(s, 0, 0, LOWER) = BLACK
                THEN set_pixel(set_pixel(s, 7, 7, UPPER, BLACK),
                               0, 0, LOWER, ORANGE)
                ELSE s
           : s \in {s0} })

\* reset_hour_glass without clearScreen
reset_hour_glass_no_clear(s) == fill_bulb(s, UPPER)

reset_hour_glass(s) ==
    fill_bulb([s EXCEPT !.screen = clearScreen(@)], UPPER)

\* sense_gravity that takes a high sensor input as gravity pointing UP
sense_gravity_upside(s0, pin) ==
    Only({ IF pin = s.sensor THEN [changed |-> FALSE, st |-> s]
           ELSE [changed |-> TRUE,
                 st |-> [s EXCEPT !.gravity = IF pin # 0 THEN UP ELSE DOWN,
                                  !.sensor = pin]]
           : s \in {s0} })

\* sense_gravity with the pin reading `pin` (0 or 1): [changed, st]
sense_gravity(s0, pin) ==
    Only({ IF pin = s.sensor THEN [changed |-> FALSE, st |-> s]
           ELSE [changed |-> TRUE,
                 st |-> [s EXCEPT !.gravity = IF pin # 0 THEN DOWN ELSE UP,
                                  !.sensor = pin]]
           : s \in {s0} })

\* DROP_CYCLE(time) = (uint16_t)(0.5 + 2500 * time * CALIBRATION / 54), with
\* CALIBRATION = 1.0
DROP_CYCLE(time) ==
    (2 * DM_REFRESH_FREQ * time + GRAINS_TOTAL) \div (2 * GRAINS_TOTAL)

\* the table of presets: 10 s, then 15 s, 30 s, ... in steps of 15 s
times(i) == DROP_CYCLE(IF i = 0 THEN 10 ELSE 15 * i)

\* the number of entries of the table times
NUM_TIMES == 40

\* get_drop_cycle followed by the assignment of its value to drop_cycle
\* (lines 505, 515, 557): sets sim_speed and drop_cycle
get_drop_cycle(s0) ==
    Only({ LET time == times(4 * s.minute + s.quarter)
           IN  [s EXCEPT !.sim_speed =
                            IF time < DROP_CYCLE(15) THEN SIM_SPEED \div 2
                            ELSE IF time < DROP_CYCLE(30) THEN SIM_SPEED \div 2
                            ELSE SIM_SPEED,
                         !.drop_cycle = time]
           : s \in {s0} })

(***************************************************************************)
(* main(): start-up and the passes of while(1).                            *)
(***************************************************************************)
\* the state of the statics and globals before main() runs
Boot ==
    [screen |-> clearScreen(<<>>), column |-> 0, bright_cnt |-> 0,
     timer |-> 0, gravity |-> 0, sensor |-> 0, sim_speed |-> SIM_SPEED,
     rnd |-> RANDOM_SEED, side |-> 0, static_counter |-> 0, minute |-> 0,
     quarter |-> 0, mode |-> SET, drop_cycle |-> 0, last_drop |-> 0,
     pc |-> "loop"]

\* main() up to while(1), with the sensor pin reading `pin` and the EEPROM
\* bytes ee_min, ee_quart.  The rainbow painted first is cleared again by
\* reset_hour_glass and leaves no trace.
Startup(pin, ee_min, ee_quart) ==
    LET a == wait([Boot EXCEPT !.column = 0, !.bright_cnt = MAX_BRIGHTNESS],
                  1000)
        b == [a EXCEPT !.minute = IF ee_min > MAX_MINUTES THEN 0 ELSE ee_min,
                       !.quarter = ee_quart % 4,
                       !.mode = RUN,
                       !.sensor = 1 - pin]
        c == get_drop_cycle(reset_hour_glass(sense_gravity(b, pin).st))
    IN  Only({ [s EXCEPT !.last_drop = s.timer] : s \in {c} })

\* the exit cell of the upper bulb holds a grain and the entry cell of the
\* lower bulb is empty
Ready(s) ==
    /\ get_pixel(s, 7, 7, UPPER) # BLACK
    /\ get_pixel(s, 0, 0, LOWER) = BLACK

\* expired with > in place of >=
expired_strict(s, cmp) == (cmp - s.last_drop) % U16 > s.drop_cycle

\* line 570: the drop cycle has expired, `cmp` being the value read from timer
expired(s, cmp) == (cmp - s.last_drop) % U16 >= s.drop_cycle

\* sample that takes the alarm at the total number of grains
sample_at_54(s0) ==
    Only({ IF b.static_counter = GRAINS_TOTAL THEN [b EXCEPT !.pc = "alarm"]
           ELSE b
           : b \in { simulate_grain([s0 EXCEPT !.rnd = r],
                                    r \div 2, r \div 16, r % 2)
                     : r \in {random(s0.rnd, 0)} } })

\* lines 573-582: the next number of the generator selects the cell that
\* simulate_grain updates; pc moves to "alarm" if it returns 255
sample(s0) ==
    Only({ IF b.static_counter = 255 THEN [b EXCEPT !.pc = "alarm"] ELSE b
           : b \in { simulate_grain([s0 EXCEPT !.rnd = r],
                                    r \div 2, r \div 16, r % 2)
                     : r \in {random(s0.rnd, 0)} } })

\* lines 570-573: the transfer of a grain when the drop cycle has expired;
\* `cmp` and `asg` are the values that the two reads of timer (lines 570 and
\* 571) deliver
timed_drop(s0, cmp, asg) ==
    Only({ IF expired(s, cmp) THEN drop([s EXCEPT !.last_drop = asg]) ELSE s
           : s \in {s0} })

\* the end of a pass that has not raised the alarm: n more interrupts
end_pass(s0, n) ==
    Only({ IF s.pc # "loop" THEN s ELSE Interrupts(s, n) : s \in {s0} })

\* lines 510-519: the sensor has changed to `pin`; the second call of
\* sense_gravity reads `pin2`
tilt_block(s0, pin, pin2) ==
    Only({ wait([b EXCEPT !.rnd = random(b.rnd, b.timer % U8)], 400)
           : b \in { IF a.mode # RUN
                     THEN get_drop_cycle(
                              reset_hour_glass([a EXCEPT !.mode = RUN]))
                     ELSE a
                     : a \in {sense_gravity(sense_gravity(s0, pin).st,
                                            pin2).st} } })

\* the S3 handler that also clears the counter of simulate_grain
button3_block_clearing(s) ==
    wait([get_drop_cycle(reset_hour_glass(wait(s, 50)))
              EXCEPT !.mode = RUN, !.static_counter = 0],
         50)

\* lines 554-561: push button S3, released at once
button3_block(s) ==
    wait([get_drop_cycle(reset_hour_glass(wait(s, 50))) EXCEPT !.mode = RUN],
         50)

(***************************************************************************)
(* timer is a volatile uint16_t that the interrupt increments and main()   *)
(* reads without ATOMIC_BLOCK.  The 8-bit target reads it in two byte      *)
(* loads; an interrupt between them that carries into the high byte        *)
(* (timer = ...FF before it) tears the value: low byte first gives         *)
(* timer + 256, high byte first gives timer - 255.  Which order the build  *)
(* uses is not fixed by the source.                                        *)
(***************************************************************************)
Tears == {"cmp_lo", "cmp_hi", "asg_lo", "asg_hi"}

torn_value(t, tear) ==
    IF tear \in {"cmp_lo", "asg_lo"} THEN (t + 256) % U16
    ELSE (t + U16 - 255) % U16

\* the cells of the two bulbs, and those that hold a grain
Cells == {UPPER, LOWER} \X (0 .. 7) \X (0 .. 7)

Grains(s) == {c \in Cells : get_pixel(s, c[2], c[3], c[1]) # BLACK}

\* lines 569-583, the RUN block, and the end of the pass, entered in state
\* b; `tear` tells which read of timer, if any, is torn by an interrupt.
\* The result holds
\* the state at the end of the pass (st), the state at the check of the drop
\* cycle (at) and what the check found and did.
run_pass(b, tear) ==
    LET cmp == IF tear \in {"cmp_lo", "cmp_hi"} THEN torn_value(b.timer, tear)
               ELSE b.timer
    IN  Only({ Only({ [st    |-> end_pass(sample(a),
                                          IF tear = "none" THEN LoopTicks
                                          ELSE LoopTicks - 1),
                       at    |-> c,
                       diff  |-> (cmp - c.last_drop) % U16,
                       ready |-> Ready(c),
                       moved |-> a.screen # c.screen]
                      : a \in { timed_drop(c, cmp,
                                           IF tear \in {"asg_lo", "asg_hi"}
                                           THEN torn_value(b.timer, tear)
                                           ELSE c.timer) } })
               : c \in { IF tear = "none" THEN b ELSE Interrupts(b, 1) } })

\* One pass of while(1) that ends in RUN mode: sensor reading `pin` (and
\* `pin2`), button S3 pressed or not, and the tear
pass(s0, pin, pin2, s3, tear) ==
    Only({ run_pass(b, tear)
           : b \in { IF s3 THEN button3_block(a) ELSE a
                     : a \in { IF pin # s.sensor THEN tilt_block(s, pin, pin2)
                               ELSE s
                               : s \in {s0} } } })

NoCheck ==
    [diff |-> -1, ready |-> FALSE, moved |-> FALSE, since |-> -1,
     tried |-> -1, idle |-> FALSE, lap |-> -1, held |-> FALSE]

Sat(n) == IF n > U16 THEN U16 ELSE n

\* the history after the pass with result p, begun in the current state;
\* `restart`: the pass has refilled the upper bulb before its check
Record(p, restart) ==
    \E pre \in {(p.at.timer - timer) % U16} :
    \E post \in {(p.st.timer - p.at.timer) % U16} :
    \E since \in {IF restart \/ since_xfer < 0 THEN -1
                  ELSE Sat(since_xfer + pre)} :
    \E tried \in {IF chk.tried < 0 THEN -1 ELSE Sat(chk.tried + pre)} :
    \E exp \in {p.diff >= p.at.drop_cycle} :
        /\ chk' = [diff |-> p.diff, ready |-> p.ready, moved |-> p.moved,
                   since |-> since,
                   tried |-> IF exp THEN post
                             ELSE IF tried < 0 THEN -1 ELSE Sat(tried + post),
                   idle |-> IF exp THEN ~p.moved ELSE chk.idle,
                   lap |-> IF exp THEN tried ELSE chk.lap,
                   held |-> IF exp THEN chk.idle ELSE chk.held]
        /\ gap' = IF p.moved THEN since ELSE IF restart THEN -1 ELSE gap
        /\ since_xfer' = IF p.moved THEN post
                         ELSE IF since < 0 THEN -1 ELSE Sat(since + post)

\* the program is in state s
Is(s) ==
    /\ screen = s.screen
    /\ column = s.column
    /\ bright_cnt = s.bright_cnt
    /\ timer = s.timer
    /\ gravity = s.gravity
    /\ sensor = s.sensor
    /\ sim_speed = s.sim_speed
    /\ rnd = s.rnd
    /\ side = s.side
    /\ static_counter = s.static_counter
    /\ minute = s.minute
    /\ quarter = s.quarter
    /\ mode = s.mode
    /\ drop_cycle = s.drop_cycle
    /\ last_drop = s.last_drop
    /\ pc = s.pc

NoHistory ==
    /\ inputs = 0
    /\ torn = 0
    /\ horizon = -1
    /\ since_xfer = -1
    /\ gap = -1
    /\ chk = NoCheck

NoTest ==
    /\ seed0 = RANDOM_SEED
    /\ outs = << >>
    /\ painted = 0

NoCall == [op |-> "none"]

\* the pointers
Ptrs == [scr_vis |-> scr_vis, scr_hid |-> scr_hid, scr_wrk |-> scr_wrk]

\* the library as init() leaves it; en: ENABLE_HIDDEN_SCREEN is defined
Inited(en) ==
    /\ scr_vis = init(en).scr_vis
    /\ scr_hid = init(en).scr_hid
    /\ scr_wrk = init(en).scr_wrk
    /\ offset = 0
    /\ screen2 = IF en THEN clearScreen(<< >>) ELSE << >>

NoDisplay ==
    /\ Inited(FALSE)
    /\ call = NoCall
    /\ strobes = << >>
    /\ shifted = [reads |-> << >>]

\* main() has reached while(1); the EEPROM holds the preset of 10 s
Init ==
    /\ \E pin \in {0, 1} : \E ee \in {<<0, 0>>} :
         \E s \in {Startup(pin, ee[1], ee[2])} : Is(s)
    /\ NoHistory
    /\ NoTest
    /\ NoDisplay

\* a pass in RUN mode without input, both reads of timer intact
RunPass ==
    /\ pc = "loop"
    /\ mode = RUN
    /\ horizon # 0
    /\ \E p \in {pass(Cur, sensor, sensor, FALSE, "none")} :
         Becomes(p.st) /\ Record(p, FALSE)
    /\ horizon' = IF horizon > 0 THEN horizon - 1 ELSE horizon
    /\ UNCHANGED <<inputs, torn, testvars, libvars, dispvars>>

\* a pass in RUN mode without input in which the interrupt tears one of the
\* reads of timer, with an outcome other than that of the intact pass
TornPass ==
    /\ pc = "loop"
    /\ mode = RUN
    /\ inputs + torn < MaxEvents
    /\ LoopTicks >= 1
    /\ timer % U8 = U8 - 1
    /\ \E tear \in Tears :
         \E p \in {pass(Cur, sensor, sensor, FALSE, tear)} :
             /\ p.st # pass(Cur, sensor, sensor, FALSE, "none").st
             /\ Becomes(p.st)
             /\ Record(p, FALSE)
    /\ torn' = torn + 1
    /\ horizon' = MaxAfter
    /\ UNCHANGED <<inputs, testvars, libvars, dispvars>>

\* a pass that finds the tilt sensor changed
TiltPass ==
    /\ pc = "loop"
    /\ mode \in {RUN, ALARM}
    /\ inputs + torn < MaxEvents
    /\ \E pin2 \in {0, 1} :
         \E p \in {pass(Cur, 1 - sensor, pin2, FALSE, "none")} :
             Becomes(p.st) /\ Record(p, mode # RUN)
    /\ inputs' = inputs + 1
    /\ horizon' = MaxAfter
    /\ UNCHANGED <<torn, testvars, libvars, dispvars>>

\* a pass that finds push button S3 pressed
Button3Pass ==
    /\ pc = "loop"
    /\ mode \in {RUN, ALARM}
    /\ inputs + torn < MaxEvents
    /\ \E p \in {pass(Cur, sensor, sensor, TRUE, "none")} :
         Becomes(p.st) /\ Record(p, TRUE)
    /\ inputs' = inputs + 1
    /\ horizon' = MaxAfter
    /\ UNCHANGED <<torn, testvars, libvars, dispvars>>

\* lines 577-581 and 585-592: simulate_grain has returned 255; the rest of
\* the pass.  The text that the ALARM block paints is made of glyphs of the
\* font files, which are not part of the source tree; the frame buffer is
\* left as alarm_signal clears it.
AlarmSignal ==
    /\ pc = "alarm"
    /\ \E s \in {Interrupts(wait([wait(Cur, 500)
                                      EXCEPT !.screen = clearScreen(@),
                                             !.mode = ALARM, !.pc = "loop"],
                                 70),
                            LoopTicks)} :
         Becomes(s)
    /\ chk' = NoCheck
    /\ since_xfer' = -1
    /\ gap' = -1
    /\ UNCHANGED <<inputs, torn, horizon, testvars, libvars, dispvars>>

Next == RunPass \/ TornPass \/ TiltPass \/ Button3Pass \/ AlarmSignal

Spec == Init /\ [][Next]_vars

\* the program left alone: no input, no torn read
RunNext == RunPass \/ AlarmSignal

SpecRun == Init /\ [][RunNext]_vars

\* main() keeps running: a pass that can be made is made
FairRun == SpecRun /\ WF_vars(RunNext)

(***************************************************************************)
(* The mode machine: the handlers of a pass of while(1) one by one, with   *)
(* the push buttons S1, S2 and S3 and the tilt sensor.  A button is        *)
(* released at once.  The text that the SET and ALARM blocks paint is made *)
(* of glyphs of the font files, which are not part of the source tree; the *)
(* frame buffer is left as it is.                                          *)
(***************************************************************************)
\* the S1 handler without the wrap of minute
button1_block_no_wrap(s0) ==
    Only({ wait(IF s.mode = SET
                THEN [s EXCEPT !.minute = (@ + 1) % U8, !.quarter = 0]
                ELSE [s EXCEPT !.mode = SET],
                50)
           : s \in {wait(s0, 50)} })

\* lines 521-533: push button S1
button1_block(s0) ==
    Only({ wait(IF s.mode = SET
                THEN [s EXCEPT !.minute = IF (@ + 1) % U8 > MAX_MINUTES THEN 0
                                          ELSE (@ + 1) % U8,
                               !.quarter = 0]
                ELSE [s EXCEPT !.mode = SET],
                50)
           : s \in {wait(s0, 50)} })

\* lines 535-552: push button S2 (QUARTER_OVERFLOWS_INTO_MINUTES is not
\* defined)
button2_block(s0) ==
    Only({ wait(IF s.mode = SET
                THEN [s EXCEPT !.quarter = IF (@ + 1) % U8 > 3 THEN 0
                                           ELSE (@ + 1) % U8]
                ELSE [s EXCEPT !.mode = SET],
                50)
           : s \in {wait(s0, 50)} })

\* lines 563-567: the SET block
set_block(s) == wait(s, 100)

\* alarm_signal and `mode = ALARM` (lines 580-581)
alarm_signal(s) ==
    [wait(s, 500) EXCEPT !.screen = clearScreen(@), !.mode = ALARM]

\* lines 569-583: the RUN block, both reads of timer intact
run_block(s0) ==
    Only({ IF b.pc = "alarm" THEN alarm_signal([b EXCEPT !.pc = s0.pc])
           ELSE b
           : b \in {sample(timed_drop(s0, s0.timer, s0.timer))} })

\* lines 585-592: the ALARM block
alarm_block(s) == wait(s, 70)

\* the blocks with the RUN block run in SET mode as well
mode_blocks_set_runs(s0) ==
    Only({ IF c.mode = ALARM THEN alarm_block(c) ELSE c
           : c \in { IF b.mode # ALARM THEN run_block(b) ELSE b
                     : b \in { IF a.mode = SET THEN set_block(a) ELSE a
                               : a \in {s0} } } })

\* lines 563-592: the blocks of the three modes, in program order
mode_blocks(s0) ==
    Only({ IF c.mode = ALARM THEN alarm_block(c) ELSE c
           : c \in { IF b.mode = RUN THEN run_block(b) ELSE b
                     : b \in { IF a.mode = SET THEN set_block(a) ELSE a
                               : a \in {s0} } } })

\* the EEPROM bytes that main() may find: the presets of 10 s, of 30 s (the
\* initialiser of ee_time_setting) and of 5 min 45 s, and an erased EEPROM
Eeproms == {<<0, 0>>, <<0, 2>>, <<5, 3>>, <<U8 - 1, U8 - 1>>}

\* main() has reached while(1).  The run with the preset of 10 s is also
\* followed, left alone, until it raises the alarm (horizon = -1).
ModeInit ==
    /\ \E pin \in {0, 1} : \E ee \in Eeproms :
         /\ \E s \in {Startup(pin, ee[1], ee[2])} : Is(s)
         /\ horizon \in IF ee = <<0, 0>> THEN {-1, ModeAfter} ELSE {ModeAfter}
    /\ inputs = 0
    /\ torn = 0
    /\ since_xfer = -1
    /\ gap = -1
    /\ chk = NoCheck
    /\ NoTest
    /\ NoDisplay

\* a tilt or a button press is followed here
MayPress == inputs < MaxPresses /\ horizon > 0

\* the pass of the press is followed, and ModeAfter more
Pressed ==
    /\ inputs' = inputs + 1
    /\ horizon' = ModeAfter + 1

NotPressed == UNCHANGED <<inputs, horizon>>

\* lines 510-519: sense_gravity at the top of the pass, and the tilt block
\* if it finds the sensor changed
SenseGravity ==
    /\ pc = "loop"
    /\ horizon # 0
    /\ \/ /\ Becomes([Cur EXCEPT !.pc = "s1"])
          /\ NotPressed
       \/ /\ MayPress
          /\ \E pin2 \in {0, 1} :
               Becomes([tilt_block(Cur, 1 - sensor, pin2) EXCEPT !.pc = "s1"])
          /\ Pressed
    /\ UNCHANGED <<torn, since_xfer, gap, chk, testvars, libvars, dispvars>>

\* lines 521-533
Button1 ==
    /\ pc = "s1"
    /\ \/ /\ Becomes([Cur EXCEPT !.pc = "s2"])
          /\ NotPressed
       \/ /\ MayPress
          /\ Becomes([button1_block(Cur) EXCEPT !.pc = "s2"])
          /\ Pressed
    /\ UNCHANGED <<torn, since_xfer, gap, chk, testvars, libvars, dispvars>>

\* lines 535-552
Button2 ==
    /\ pc = "s2"
    /\ \/ /\ Becomes([Cur EXCEPT !.pc = "s3"])
          /\ NotPressed
       \/ /\ MayPress
          /\ Becomes([button2_block(Cur) EXCEPT !.pc = "s3"])
          /\ Pressed
    /\ UNCHANGED <<torn, since_xfer, gap, chk, testvars, libvars, dispvars>>

\* lines 554-561
Button3 ==
    /\ pc = "s3"
    /\ \/ /\ Becomes([Cur EXCEPT !.pc = "blocks"])
          /\ NotPressed
       \/ /\ MayPress
          /\ Becomes([button3_block(Cur) EXCEPT !.pc = "blocks"])
          /\ Pressed
    /\ UNCHANGED <<torn, since_xfer, gap, chk, testvars, libvars, dispvars>>

\* lines 563-592, and the interrupts that fall into the pass outside wait()
Blocks ==
    /\ pc = "blocks"
    /\ \E s \in {mode_blocks(Cur)} :
         /\ Becomes([Interrupts(s, LoopTicks) EXCEPT !.pc = "loop"])
         /\ horizon' = IF mode = RUN /\ s.mode = ALARM THEN ModeAfter
                       ELSE IF horizon > 0 THEN horizon - 1
                       ELSE horizon
    /\ UNCHANGED <<inputs, torn, since_xfer, gap, chk, testvars, libvars,
                   dispvars>>

ModeNext == SenseGravity \/ Button1 \/ Button2 \/ Button3 \/ Blocks

SpecMode == ModeInit /\ [][ModeNext]_vars

(***************************************************************************)
(* random() on its own: from the static initialiser or a nonzero seed,     *)
(* MaxDraws outputs.                                                       *)
(***************************************************************************)
RndInit ==
    /\ Is(Boot)
    /\ NoHistory
    /\ NoTest
    /\ NoDisplay

\* random(S) with S # 0, as the first call
Reseed ==
    /\ outs = << >>
    /\ \E S \in 1 .. U8 - 1 :
         /\ rnd' = random(rnd, S)
         /\ seed0' = S
         /\ outs' = <<random(rnd, S)>>
    /\ UNCHANGED <<screen, column, bright_cnt, timer, gravity, sensor,
                   sim_speed, side, static_counter, minute, quarter, mode,
                   drop_cycle, last_drop, pc, histvars, painted, libvars,
                   dispvars>>

\* random(0)
Draw ==
    /\ Len(outs) < MaxDraws
    /\ rnd' = random(rnd, 0)
    /\ outs' = Append(outs, random(rnd, 0))
    /\ UNCHANGED <<screen, column, bright_cnt, timer, gravity, sensor,
                   sim_speed, side, static_counter, minute, quarter, mode,
                   drop_cycle, last_drop, pc, histvars, seed0, painted,
                   libvars, dispvars>>

RndNext == Reseed \/ Draw

SpecRnd == RndInit /\ [][RndNext]_vars

(***************************************************************************)
(* The coordinate transform on its own: on an empty screen, under either   *)
(* gravity, set_pixel paints the cells of the two bulbs one after the      *)
(* other.                                                                  *)
(***************************************************************************)
NumCells == 2 * COLS_PER_BLOCK * ROWS_PER_BLOCK

\* the i-th cell: <<bulb, x, y>>
Cell(i) == <<i \div 64, i % 8, (i \div 8) % 8>>

XformInit ==
    /\ \E g \in {DOWN, UP} : Is([Boot EXCEPT !.gravity = g])
    /\ NoHistory
    /\ NoTest
    /\ NoDisplay

Paint ==
    /\ painted < NumCells
    /\ screen' = set_pixel(Cur, Cell(painted)[2], Cell(painted)[3],
                           Cell(painted)[1], ORANGE).screen
    /\ painted' = painted + 1
    /\ UNCHANGED <<column, bright_cnt, timer, gravity, sensor, sim_speed, rnd,
                   side, static_counter, minute, quarter, mode, drop_cycle,
                   last_drop, pc, histvars, seed0, outs, libvars, dispvars>>

SpecXform == XformInit /\ [][Paint]_vars

(***************************************************************************)
(* The display library on its own.                                         *)
(***************************************************************************)
\* the program state apart from the frame buffer
restvars == <<column, bright_cnt, timer, gravity, sensor, sim_speed, rnd,
              side, static_counter, minute, quarter, mode, drop_cycle,
              last_drop, pc>>

\* the screen at index p of DotMatrix::screen
Buf(p) == IF p = 0 THEN screen ELSE screen2

\* a writing call leaves the working screen as scr
Written(scr) ==
    IF scr_wrk = 0 THEN screen' = scr /\ screen2' = screen2
    ELSE screen2' = scr /\ screen' = screen

\* screens that the calls are tried on: the rainbow that main() paints
\* (lines 491-492) and the hourglass as reset_hour_glass fills it
Rainbow ==
    displayGraphics(displayGraphics(clearScreen(<< >>), 0, 0, OPAQUE,
                                    rainbow, 8),
                    8, 0, OPAQUE, rainbow, 8)

Sand == Startup(1, 0, 0).screen

\* coordinates, buffer selectors and pixel columns that the calls are tried
\* with
Xs == (0 .. DIM_X - 1 + Far) \cup {U8 - 1}

Ys == (0 .. DIM_Y - 1 + Far) \cup {U8 - 1}

BulbXYs == (0 .. 7 + Far) \cup {U8 - 1}

Selectors == {VISIBLE, HIDDEN, HIDDEN + Far, U8 - 1}

PixCols ==
    {[lsb |-> rainbow[2 * i + 1], msb |-> rainbow[2 * i + 2]] : i \in {0, 3, 7}}
      \cup {[lsb |-> U16 - 1, msb |-> U16 - 1]}

NoRefresh == [reads |-> << >>]

\* init() has run, with or without ENABLE_HIDDEN_SCREEN, and the visible
\* screen has been painted; gravity is either way in the build of the
\* sources, which has no hidden screen
FrameInit ==
    /\ \E en \in BOOLEAN :
         /\ Inited(en)
         /\ \E scr \in {clearScreen(<< >>), Rainbow, Sand} :
              \E g \in IF en THEN {DOWN} ELSE {DOWN, UP} :
                 Is([Boot EXCEPT !.screen = scr, !.gravity = g,
                                 !.bright_cnt = MAX_BRIGHTNESS])
    /\ NoHistory
    /\ NoTest
    /\ call = NoCall
    /\ strobes = << >>
    /\ shifted = NoRefresh

\* the calls that end a trial: each behaviour makes one of them, after any
\* number of selections and swaps
Trials == {"setPixel", "setPixCol", "getPixel", "set_pixel", "get_pixel"}

SelectScreen ==
    /\ call.op \notin Trials
    /\ \E v \in Selectors :
         \E p \in {selectScreen(Ptrs, v)} :
            /\ scr_vis' = p.scr_vis
            /\ scr_hid' = p.scr_hid
            /\ scr_wrk' = p.scr_wrk
            /\ call' = [op |-> "selectScreen", vis_hid |-> v]
    /\ UNCHANGED <<progvars, histvars, testvars, offset, screen2, strobes,
                   shifted>>

SwapScreen ==
    /\ call.op \notin Trials
    /\ \E p \in {swapScreen(Ptrs)} :
         /\ scr_vis' = p.scr_vis
         /\ scr_hid' = p.scr_hid
         /\ scr_wrk' = p.scr_wrk
    /\ call' = [op |-> "swapScreen", ptrs |-> Ptrs]
    /\ UNCHANGED <<progvars, histvars, testvars, offset, screen2, strobes,
                   shifted>>

SetPixel ==
    /\ call.op \notin Trials
    /\ \E x \in Xs, y \in Ys, color \in 0 .. 15 :
         /\ Written(setPixel(Buf(scr_wrk), x, y, color))
         /\ call' = [op |-> "setPixel", x |-> x, y |-> y, color |-> color,
                     screen |-> screen, screen2 |-> screen2]
    /\ UNCHANGED <<restvars, histvars, testvars, offset, scr_vis, scr_hid,
                   scr_wrk, strobes, shifted>>

SetPixCol ==
    /\ call.op \notin Trials
    /\ \E x \in Xs, y \in Ys, src \in PixCols,
          md \in {OPAQUE, TRANSPARENT, XOR} :
         /\ Written(setPixCol(Buf(scr_wrk), x, y, src, md))
         /\ call' = [op |-> "setPixCol", x |-> x, y |-> y, src |-> src,
                     mode |-> md, screen |-> screen, screen2 |-> screen2]
    /\ UNCHANGED <<restvars, histvars, testvars, offset, scr_vis, scr_hid,
                   scr_wrk, strobes, shifted>>

GetPixel ==
    /\ call.op \notin Trials
    /\ \E x \in Xs, y \in Ys, v \in Selectors :
         call' = [op |-> "getPixel", x |-> x, y |-> y, vis_hid |-> v,
                  value |-> getPixel(Buf(IF v = HIDDEN THEN scr_hid
                                         ELSE scr_vis),
                                     x, y, v)]
    /\ UNCHANGED <<progvars, histvars, testvars, libvars, strobes, shifted>>

\* set_pixel and get_pixel of Bits_of_Time.cpp, in the build of the sources
BulbSetPixel ==
    /\ call.op \notin Trials
    /\ screen2 = << >>
    /\ \E x \in BulbXYs, y \in BulbXYs, bulb \in {UPPER, LOWER},
          color \in {BLACK, YELLOW, ORANGE} :
         /\ screen' = set_pixel(Cur, x, y, bulb, color).screen
         /\ call' = [op |-> "set_pixel", x |-> x, y |-> y, bulb |-> bulb,
                     color |-> color, screen |-> screen, screen2 |-> screen2]
    /\ UNCHANGED <<restvars, histvars, testvars, libvars, strobes, shifted>>

BulbGetPixel ==
    /\ call.op \notin Trials
    /\ screen2 = << >>
    /\ \E x \in BulbXYs, y \in BulbXYs, bulb \in {UPPER, LOWER} :
         call' = [op |-> "get_pixel", x |-> x, y |-> y, bulb |-> bulb,
                  value |-> get_pixel(Cur, x, y, bulb)]
    /\ UNCHANGED <<progvars, histvars, testvars, libvars, strobes, shifted>>

FrameNext ==
    \/ SelectScreen
    \/ SwapScreen
    \/ SetPixel
    \/ SetPixCol
    \/ GetPixel
    \/ BulbSetPixel
    \/ BulbGetPixel

SpecFrame == FrameInit /\ [][FrameNext]_vars

(***************************************************************************)
(* The refresh on its own: the interrupt routine and setOffset, in the     *)
(* build of the sources, on the rainbow and on the filled hourglass.       *)
(***************************************************************************)
\* what a read beyond the end of DotMatrix::screen may deliver
StrayWords == {0, U16 - 1}

\* the planes that update may read at scr_vis[c]
Planes(c) ==
    IF scr_vis + c < NUM_PIXCOLS THEN {screen[scr_vis + c + 1]}
    ELSE IF scr_vis + c < NUM_PIXCOLS + Len(screen2)
         THEN {screen2[scr_vis + c - NUM_PIXCOLS + 1]}
         ELSE {[lsb |-> l, msb |-> m] : l \in StrayWords, m \in StrayWords}

RefreshInit ==
    /\ \E scr \in {Rainbow, Sand} :
         Is([Boot EXCEPT !.screen = scr, !.bright_cnt = MAX_BRIGHTNESS])
    /\ NoHistory
    /\ NoTest
    /\ Inited(FALSE)
    /\ call = NoCall
    /\ strobes = << >>
    /\ shifted = NoRefresh

SetOffset ==
    /\ \E col \in (0 .. NUM_PIXCOLS - 1 + Far) \cup {U8 - 1} :
         offset' = setOffset(offset, col)
    /\ UNCHANGED <<progvars, histvars, testvars, scr_vis, scr_hid, scr_wrk,
                   screen2, dispvars>>

\* the word shifted out in iteration b of the loop of update, for the
\* planes r read at index c
Out(c, r, bc) ==
    [idx |-> c, lsb |-> r.lsb, msb |-> r.msb,
     word |-> emitted(r.msb, r.lsb, bc)]

\* ISR(TIM1_COMPA_vect): timer++ and update(), with its loop over the
\* NUM_BLOCKS = 2 PixBlocks
Refresh ==
    /\ Len(strobes) < MaxRefresh
    /\ timer' = (timer + 1) % U16
    /\ \E u \in {update(column, bright_cnt)} :
         \E c0 \in {read_index(offset, column, 0)} :
         \E c1 \in {read_index(offset, column, 1)} :
         \E r0 \in Planes(c0) : \E r1 \in Planes(c1) :
            /\ column' = u.column
            /\ bright_cnt' = u.bright_cnt
            /\ strobes' = Append(strobes, [column |-> column,
                                           bright_cnt |-> u.bright_cnt])
            /\ shifted' = [offset |-> offset, column |-> column,
                           bright_cnt |-> u.bright_cnt,
                           reads |-> <<Out(c0, r0, u.bright_cnt),
                                       Out(c1, r1, u.bright_cnt)>>]
    /\ UNCHANGED <<screen, gravity, sensor, sim_speed, rnd, side,
                   static_counter, minute, quarter, mode, drop_cycle,
                   last_drop, pc, histvars, testvars, libvars, call>>

RefreshNext == SetOffset \/ Refresh

SpecRefresh == RefreshInit /\ [][RefreshNext]_vars

(***************************************************************************)
(* displayText on its own: one call on the empty screen, with a text of    *)
(* two characters.                                                         *)
(***************************************************************************)
\* fontparams as the font files may set it: the program prints the
\* characters 32 (alarm_signal) to 68 (main) with font 1
FontParams == {<<32, 37, 32, 37>>, <<33, 36, 33, 36>>}

\* the first character tried: the commands, and characters around them
Codes == 0 .. 34

\* the second character tried: 48 + m and 65 + animation with m = 0 and
\* animation = 0 (display_time_setting, main)
Glyphs == {48, 65}

TextInit ==
    /\ Is([Boot EXCEPT !.bright_cnt = MAX_BRIGHTNESS])
    /\ NoHistory
    /\ NoTest
    /\ NoDisplay

DisplayText ==
    /\ call = NoCall
    /\ \E c \in Codes, g \in Glyphs, fp \in FontParams, x \in {0, DIM_X - 1},
          col \in {0, 1}, md \in {OPAQUE, TRANSPARENT} :
         \E r \in {displayText(screen, x, 0, md, <<c, g, 0>>, col, DIM_X,
                               fp)} :
            /\ screen' = r.scr
            /\ call' = [op |-> "displayText", x |-> x, mode |-> md,
                        st |-> <<c, g, 0>>, text_column |-> col,
                        fontparams |-> fp, cols |-> r.cols, ret |-> r.ret,
                        screen |-> screen]
    /\ UNCHANGED <<restvars, histvars, testvars, libvars, strobes, shifted>>

SpecText == TextInit /\ [][DisplayText]_vars

(***************************************************************************)
(* Properties.                                                             *)
(***************************************************************************)
\* upper_bulb_empty: no cell of the upper bulb holds a grain (the program
\* defines the function and never calls it)
upper_bulb_empty(s) ==
    \A x \in 0 .. 7, y \in 0 .. 7 : get_pixel(s, x, y, UPPER) = BLACK

\* the grain at (x, y), if there is one, has an empty cell to move to
CanMove(s, x, y, bulb) ==
    /\ get_pixel(s, x, y, bulb) # BLACK
    /\ \/ get_pixel(s, x + 1, y + 1, bulb) = BLACK
       \/ get_pixel(s, x + 1, y, bulb) = BLACK
       \/ get_pixel(s, x, y + 1, bulb) = BLACK

LowerAtRest(s) ==
    \A x \in 0 .. 7, y \in 0 .. 7 : ~CanMove(s, x, y, LOWER)

\* the step just taken was a pass that ran the RUN block
Ticked == chk.diff >= 0

\* C1, as stated: in RUN mode a pass whose relaxation step returns the
\* counter value 54, the total number of grains, raises the elapsed signal.
C1_ElapsedAt54 ==
    (mode = RUN /\ Ticked /\ static_counter = GRAINS_TOTAL) => pc = "alarm"

\* C1, amended: the elapsed signal is raised by exactly those passes in RUN
\* mode whose relaxation step returns the counter value 255, and the counter
\* keeps that value while the mode is ALARM.
C1_ElapsedAt255 ==
    /\ (pc = "alarm") <=> (mode = RUN /\ Ticked /\ static_counter = 255)
    /\ mode = ALARM => static_counter = 255

C1_Raised == pc = "alarm" /\ Ticked /\ static_counter = 255

\* C2: whatever passes, tilts and restarts came before, the elapsed signal
\* is not raised while a cell of the upper bulb holds a grain.
C2_NoAlarmWithUpperGrain == pc = "alarm" => upper_bulb_empty(Cur)

\* C3: left alone, the run finishes: eventually the elapsed signal is raised
\* with the upper bulb empty and no grain of the lower bulb able to move.
C3_Finishes == <>(pc = "alarm" /\ upper_bulb_empty(Cur) /\ LowerAtRest(Cur))

C3_Finished ==
    /\ pc = "alarm"
    /\ upper_bulb_empty(Cur)
    /\ LowerAtRest(Cur)
    /\ Cardinality(Grains(Cur)) = GRAINS_TOTAL
    /\ inputs = 0

\* C4: a pass without input never increases the number of grains on the
\* screen, and a run never shows more than 54.
C4_NeverMore ==
    /\ [](mode = RUN => Cardinality(Grains(Cur)) <= GRAINS_TOTAL)
    /\ [][inputs' = inputs
            => Cardinality(Grains(Cur')) <= Cardinality(Grains(Cur))]_vars

C4_AllKept ==
    /\ mode = RUN
    /\ chk.moved
    /\ ~upper_bulb_empty(Cur)
    /\ ~LowerAtRest(Cur)
    /\ Cardinality(Grains(Cur)) = GRAINS_TOTAL

\* C5: at the begin of a pass in RUN mode with the drop cycle expired, lines
\* 570-573 transfer a grain if and only if the exit cell holds a grain and
\* the entry cell is empty; the transfer makes the exit cell BLACK and the
\* entry cell ORANGE and changes no other cell; without a transfer the frame
\* buffer stays as it is.
C5_Transfer ==
    (pc = "loop" /\ mode = RUN /\ expired(Cur, timer)) =>
        LET a == timed_drop(Cur, timer, timer)
        IN  IF Ready(Cur)
            THEN /\ get_pixel(a, 7, 7, UPPER) = BLACK
                 /\ get_pixel(a, 0, 0, LOWER) = ORANGE
                 /\ \A c \in Cells \ {<<UPPER, 7, 7>>, <<LOWER, 0, 0>>} :
                        get_pixel(a, c[2], c[3], c[1])
                          = get_pixel(Cur, c[2], c[3], c[1])
            ELSE a.screen = screen

C5_Due ==
    /\ pc = "loop"
    /\ mode = RUN
    /\ expired(Cur, timer)
    /\ Ready(Cur)
    /\ timed_drop(Cur, timer, timer).screen # screen

\* C6: two successive transfers of one run are at least drop_cycle
\* interrupts apart.
C6_OncePerWindow == gap >= 0 => gap >= drop_cycle

\* C7, as stated: with the exit cell occupied and the entry cell empty the
\* transfer comes exactly drop_cycle interrupts after the one before: a pass
\* that begins earlier than that with the cells ready does not end later
\* than that without the transfer.
C7_ExactlyOnTime ==
    (/\ Ticked
     /\ chk.ready
     /\ ~chk.moved
     /\ chk.since >= 0
     /\ chk.since < drop_cycle
     /\ pc = "loop"
     /\ Ready(Cur))
        => since_xfer <= drop_cycle

\* C7, amended: the transfer is made by the first check of the drop cycle
\* that finds the exit cell occupied, the entry cell empty and the value
\* read from timer at least drop_cycle beyond last_drop; a pass makes one
\* check, at its begin.
C7_AtFirstCheck ==
    Ticked => (chk.moved <=> (chk.ready /\ chk.diff >= drop_cycle))

\* a transfer later than drop_cycle interrupts after the one before
C7_Late ==
    /\ chk.moved
    /\ chk.since > drop_cycle
    /\ inputs = 0
    /\ torn = 0

\* C8: under either gravity the cells of the two bulbs go one-to-one onto
\* the pixels of the display: each cell painted lights one more pixel, and
\* only the cells painted read as painted.
C8_Bijection ==
    /\ Cardinality({q \in (0 .. DIM_X - 1) \X (0 .. DIM_Y - 1) :
                       getPixel(screen, q[1], q[2], VISIBLE) # BLACK})
         = painted
    /\ \A i \in 0 .. NumCells - 1 :
         get_pixel(Cur, Cell(i)[2], Cell(i)[3], Cell(i)[1])
           = IF i < painted THEN ORANGE ELSE BLACK

C8_AllLit ==
    /\ painted = NumCells
    /\ \A q \in (0 .. DIM_X - 1) \X (0 .. DIM_Y - 1) :
         getPixel(screen, q[1], q[2], VISIBLE) = ORANGE

\* C9: random() never returns 0, and an output repeats an earlier one only
\* 255 calls (or a multiple) later: 255 calls in a row return the 255
\* nonzero values.
C9_Period ==
    /\ rnd # 0
    /\ \A i \in 1 .. Len(outs) :
         /\ outs[i] \in 1 .. U8 - 1
         /\ (outs[i] = outs[Len(outs)]) <=> ((Len(outs) - i) % (U8 - 1) = 0)
    /\ Len(outs) >= U8 - 1 =>
         {outs[i] : i \in 1 .. U8 - 1} = 1 .. U8 - 1

C9_AllVisited ==
    /\ Len(outs) = U8 - 1
    /\ {outs[i] : i \in 1 .. Len(outs)} = 1 .. U8 - 1

\* C10, as stated: output number 256 after seeding with S equals S.
C10_Output256 == Len(outs) >= 256 => outs[256] = seed0

\* C10, amended: counting the value that the seeding call returns as
\* output 1, output number 255 equals S; output 256 equals output 1, the
\* successor of S, and differs from S.
C10_Output255 ==
    /\ Len(outs) >= 255 => outs[255] = seed0
    /\ Len(outs) >= 256 => outs[256] = outs[1] /\ outs[256] # seed0

C10_BackAtSeed ==
    /\ seed0 # RANDOM_SEED
    /\ Len(outs) >= 256
    /\ outs[255] = seed0

\* the intensity (2 * MSB + LSB) of LED k of the planes r
Intensity(r, k) == 2 * Bit(r.msb, 2 ^ k) + Bit(r.lsb, 2 ^ k)

\* the bit that an LED of intensity v shows in sub-frame f
Lit(v, f) ==
    CASE v = 0 -> 0
      [] v = 1 -> IF f = 0 THEN 1 ELSE 0
      [] v = 2 -> IF f \in {0, 2} THEN 1 ELSE 0
      [] v = 3 -> 1

\* C11: the word that a refresh shifts out depends on the planes read and
\* the sub-frame only: per LED the bits over the sub-frames (3, 2, 1, 0) are
\* 0000 for intensity 00, 0001 for 01, 0101 for 10 and 1111 for 11, which
\* lights the LED in 0, 1, 2 and 4 of the 4 sub-frames (0, 25, 50, 100 %).
C11_Dither ==
    \A b \in DOMAIN shifted.reads :
        \A r \in {shifted.reads[b]} :
        \A w \in {[f \in 0 .. MAX_BRIGHTNESS |-> emitted(r.msb, r.lsb, f)]} :
        \A k \in 0 .. 15 :
        \A v \in {Intensity(r, k)} :
            /\ Bit(r.word, 2 ^ k) = Lit(v, shifted.bright_cnt)
            /\ 25 * Cardinality({f \in 0 .. MAX_BRIGHTNESS :
                                   Bit(w[f], 2 ^ k) = 1})
                 = CASE v = 0 -> 0 [] v = 1 -> 25 [] v = 2 -> 50
                     [] v = 3 -> 100

C11_QuarterLit ==
    /\ shifted.reads # << >>
    /\ shifted.bright_cnt = 0
    /\ \E k \in 0 .. 15 :
         /\ Intensity(shifted.reads[2], k) = 1
         /\ Bit(shifted.reads[2].word, 2 ^ k) = 1
    /\ \A v \in 0 .. 3 : \E k \in 0 .. 15 : Intensity(shifted.reads[2], k) = v

\* the working screen, the screen that VISIBLE or HIDDEN selects, and the
\* same before the latest call
Sel(v) == IF v = HIDDEN THEN scr_hid ELSE scr_vis

Was(p) == IF p = 0 THEN call.screen ELSE call.screen2

InRange == call.x < DIM_X /\ call.y < DIM_Y

\* C12: after setPixel(x, y, c) with x in 0..15 and y in 0..7, getPixel(x, y)
\* on the screen written returns c, and every other pixel, of either screen,
\* has the colour that it had.
C12_RoundTrip ==
    (call.op = "setPixel" /\ InRange) =>
        /\ getPixel(Buf(Sel(IF scr_wrk = scr_hid THEN HIDDEN ELSE VISIBLE)),
                    call.x, call.y,
                    IF scr_wrk = scr_hid THEN HIDDEN ELSE VISIBLE)
             = call.color
        /\ \A v \in {VISIBLE, HIDDEN} :
             \A x \in 0 .. DIM_X - 1, y \in 0 .. DIM_Y - 1 :
                (Sel(v) # scr_wrk \/ <<x, y>> # <<call.x, call.y>>) =>
                    getPixel(Buf(Sel(v)), x, y, v)
                      = getPixel(Was(Sel(v)), x, y, v)

C12_Repainted ==
    /\ call.op = "setPixel"
    /\ InRange
    /\ call.color \notin {BLACK, ORANGE}
    /\ getPixel(Was(scr_wrk), call.x, call.y, VISIBLE) = ORANGE
    /\ getPixel(Buf(scr_wrk), call.x, call.y, VISIBLE) = call.color
    /\ scr_wrk = scr_hid
    /\ scr_wrk # scr_vis

\* C13: setPixel and setPixCol with x >= 16 or y >= 8 change no column of
\* either screen; getPixel with such coordinates, or with a selector other
\* than VISIBLE and HIDDEN, returns 255, which no read inside the display
\* returns; get_pixel returns 255 and set_pixel changes nothing for x > 7 or
\* y > 7.
C13_OutOfRange ==
    /\ (call.op \in {"setPixel", "setPixCol"} /\ ~InRange) =>
          (screen = call.screen /\ screen2 = call.screen2)
    /\ call.op = "getPixel" =>
          IF InRange /\ call.vis_hid \in {VISIBLE, HIDDEN}
          THEN call.value \in 0 .. 15
          ELSE call.value = 255
    /\ call.op = "get_pixel" =>
          IF call.x > 7 \/ call.y > 7 THEN call.value = 255
          ELSE call.value \in 0 .. 15
    /\ (call.op = "set_pixel" /\ (call.x > 7 \/ call.y > 7)) =>
          (screen = call.screen /\ screen2 = call.screen2)

C13_Refused ==
    /\ call.op = "getPixel"
    /\ call.x = DIM_X
    /\ call.y = 0
    /\ call.vis_hid = VISIBLE
    /\ call.value = 255
    /\ screen = Rainbow

\* the colour of row i of a pixel column
RowColour(col, i) == getPixel(<<col>>, 0, i, VISIBLE)

Swapped == call'.op = "swapScreen" /\ <<libvars, call>>' # <<libvars, call>>

\* C15: with the hidden screen enabled, swapScreen exchanges scr_vis and
\* scr_hid and copies no pixel; the working screen keeps its role (hidden
\* before: hidden after; visible before: visible after); the second of two
\* swaps in a row restores the three pointers.
C15_SwapKeepsRole ==
    [][(Swapped /\ screen2 # << >>) =>
          /\ scr_vis' = scr_hid
          /\ scr_hid' = scr_vis
          /\ screen' = screen
          /\ screen2' = screen2
          /\ scr_wrk = scr_hid => scr_wrk' = scr_hid'
          /\ scr_wrk = scr_vis => scr_wrk' = scr_vis'
          /\ call.op = "swapScreen" => Ptrs' = call.ptrs]_vars

C15_SwappedBack ==
    /\ call.op = "swapScreen"
    /\ screen2 # << >>
    /\ call.ptrs = [scr_vis |-> NUM_PIXCOLS, scr_hid |-> 0,
                    scr_wrk |-> 0]
    /\ Ptrs = [scr_vis |-> 0, scr_hid |-> NUM_PIXCOLS,
               scr_wrk |-> NUM_PIXCOLS]

\* C16, as stated: with two screens, the screen of DotMatrix::screen that is
\* written before swapScreen is the one written after it.
C16_SameTarget ==
    [][(Swapped /\ screen2 # << >>) => scr_wrk' = scr_wrk]_vars

\* C16, amended: with two screens, swapScreen moves the writes to the other
\* screen of DotMatrix::screen, the one that has taken the role (visible or
\* hidden) of the screen written before.
C16_TargetFollowsRole ==
    [][(Swapped /\ screen2 # << >>) =>
          /\ scr_wrk' # scr_wrk
          /\ scr_wrk' \in {0, NUM_PIXCOLS}
          /\ (scr_wrk' = scr_vis') <=> (scr_wrk = scr_vis)]_vars

C16_OtherTarget ==
    /\ call.op = "swapScreen"
    /\ screen2 # << >>
    /\ call.ptrs.scr_wrk = call.ptrs.scr_vis
    /\ scr_wrk = scr_vis
    /\ scr_wrk # call.ptrs.scr_wrk

\* C17: for each offset that setOffset accepts (0..15) and each column
\* cursor (0..7), every index that a refresh reads lies in 0..NUM_PIXCOLS-1,
\* and panel p (0 the leftmost; the refresh reads the rightmost first)
\* shows column (offset + 8 p + cursor) mod 16 of the screen.
C17_Wrapped ==
    \A b \in DOMAIN shifted.reads :
        /\ shifted.reads[b].idx \in 0 .. NUM_PIXCOLS - 1
        /\ shifted.reads[b].idx
             = (shifted.offset + COLS_PER_BLOCK * (NUM_BLOCKS - b)
                  + shifted.column) % NUM_PIXCOLS

\* C18: the column cursor stays in 0..7 and the sub-frame counter in 0..3;
\* the refreshes that find the cursor at 0, and no others, decrement the
\* counter (mod 4); any 32 refreshes in a row show each pair of column and
\* sub-frame once.
C18_Sweep ==
    /\ column \in 0 .. COLS_PER_BLOCK - 1
    /\ bright_cnt \in 0 .. MAX_BRIGHTNESS
    /\ \A i \in 1 .. Len(strobes) :
         LET before == IF i = 1 THEN MAX_BRIGHTNESS
                       ELSE strobes[i - 1].bright_cnt
         IN  /\ strobes[i].column = (i - 1) % COLS_PER_BLOCK
             /\ strobes[i].bright_cnt =
                   IF strobes[i].column = 0
                   THEN (before + MAX_BRIGHTNESS) % (MAX_BRIGHTNESS + 1)
                   ELSE before
    /\ \A i \in 1 .. Len(strobes) - 31 :
         /\ {strobes[j] : j \in i .. i + 31}
              = [column : 0 .. COLS_PER_BLOCK - 1,
                 bright_cnt : 0 .. MAX_BRIGHTNESS]

C18_FullCycle ==
    /\ Len(strobes) > 32
    /\ strobes[33] = strobes[1]
    /\ column = Len(strobes) % COLS_PER_BLOCK
    /\ offset # 0

\* the cell <<x, y, bulb>> that a pass samples which enters the RUN block
\* in state s (lines 574-576)
sampled(s) ==
    Only({ <<(r \div 2) % 8, (r \div 16) % 8, r % 2>>
           : r \in {random(s.rnd, 0)} })

Sampled == sampled(Cur)

\* the states in which a pass begun in the current state may enter the RUN
\* block: the current state in RUN mode; after the restart by a tilt or by
\* S3 in ALARM mode
Entered ==
    IF mode = RUN THEN {Cur}
    ELSE {button3_block(Cur)}
           \cup {tilt_block(Cur, 1 - sensor, pin2) : pin2 \in {0, 1}}

\* the pixels <<column, row>> of the display whose colour differs between
\* the states a and b
Changed(a, b) ==
    {q \in {i \in 1 .. NUM_PIXCOLS : a.screen[i] # b.screen[i]}
              \X (0 .. DIM_Y - 1) :
        getPixel(a.screen, q[1] - 1, q[2], VISIBLE)
          # getPixel(b.screen, q[1] - 1, q[2], VISIBLE)}

\* C19: a pass that runs the RUN block updates the rest counter (a uint8_t,
\* so that 255 + 1 is 0) by this rule: the timed transfer leaves it; sampled cell empty: counter + 1 and
\* no pixel changes; grain moved, diagonally or along an axis: counter 0,
\* the cell empty, the grain ORANGE at the target and no other pixel
\* changed; grain unable to move: the grain YELLOW in place, no other pixel
\* changed, counter + 1 in the lower bulb and counter 0 in the upper bulb.
C19_CounterRule ==
    pc = "loop" =>
        \A s \in Entered :
        \A a \in {timed_drop(s, s.timer, s.timer)} :
        \A b \in {sample(a)} :
        \A c \in {sampled(s)} :
            LET x == c[1]
                y == c[2]
                bulb == c[3]
                up == (static_counter + 1) % U8
                targets == {t \in {<<x + 1, y + 1>>, <<x + 1, y>>,
                                   <<x, y + 1>>} :
                              get_pixel(a, t[1], t[2], bulb) = BLACK}
            IN  /\ s.static_counter = static_counter
                /\ a.static_counter = static_counter
                /\ IF get_pixel(a, x, y, bulb) = BLACK
                   THEN b.static_counter = up /\ b.screen = a.screen
                   ELSE IF targets # {}
                   THEN /\ b.static_counter = 0
                        /\ get_pixel(b, x, y, bulb) = BLACK
                        /\ \E t \in targets :
                             get_pixel(b, t[1], t[2], bulb) = ORANGE
                        /\ Cardinality(Changed(a, b)) = 2
                   ELSE /\ b.static_counter = IF bulb = LOWER THEN up ELSE 0
                        /\ get_pixel(b, x, y, bulb) = YELLOW
                        /\ Cardinality(Changed(a, b))
                             = IF get_pixel(a, x, y, bulb) = YELLOW THEN 0
                               ELSE 1

\* a pass that transfers a grain and then finds a grain of the upper bulb
\* unable to move, with the counter above 0
C19_UpperAtRest ==
    /\ pc = "loop"
    /\ mode = RUN
    /\ static_counter > 0
    /\ expired(Cur, timer)
    /\ Ready(Cur)
    /\ Sampled[3] = UPPER
    /\ get_pixel(timed_drop(Cur, timer, timer), Sampled[1], Sampled[2], UPPER)
         # BLACK
    /\ ~CanMove(timed_drop(Cur, timer, timer), Sampled[1], Sampled[2], UPPER)
    /\ sample(timed_drop(Cur, timer, timer)).static_counter = 0

\* C20, as stated: the order in which (x+1, y) and (x, y+1) are tried
\* alternates on every call of the relaxation step, that is, every pass in
\* RUN mode toggles the flag.
C20_TogglesEveryCall ==
    [][(pc = "loop" /\ mode = RUN) => side' # side]_vars

\* C20, amended: the flag toggles on those calls of the relaxation step that
\* come to the fallback (sampled cell occupied, diagonal target not empty)
\* and on no others; such a call tries (x+1, y) then (x, y+1) if the flag was
\* set and the reverse if not, and the first of the two whose target is
\* empty moves the grain; if neither is, the grain stays.
C20_TogglesOnFallback ==
    [][(pc = "loop" /\ mode = RUN) =>
          \A a \in {timed_drop(Cur, timer, timer)} :
          \A b \in {Cur'} :
          \A c \in {Sampled} :
              LET x == c[1]
                  y == c[2]
                  bulb == c[3]
                  blocked == /\ get_pixel(a, x, y, bulb) # BLACK
                             /\ get_pixel(a, x + 1, y + 1, bulb) # BLACK
                  fst == IF side # 0 THEN <<x + 1, y>> ELSE <<x, y + 1>>
                  snd == IF side # 0 THEN <<x, y + 1>> ELSE <<x + 1, y>>
                  Free(t) == get_pixel(a, t[1], t[2], bulb) = BLACK
                  MovedTo(t) == /\ get_pixel(b, t[1], t[2], bulb) = ORANGE
                                /\ get_pixel(b, x, y, bulb) = BLACK
              IN  /\ b.side = IF blocked THEN 1 - side ELSE side
                  /\ blocked =>
                        IF Free(fst) THEN MovedTo(fst) /\ (Free(snd) =>
                              get_pixel(b, snd[1], snd[2], bulb) = BLACK)
                        ELSE IF Free(snd) THEN MovedTo(snd)
                        ELSE get_pixel(b, x, y, bulb) = YELLOW]_vars

\* a pass that finds both fallback targets empty, with the flag set and
\* with the flag clear
C20_BothFree ==
    /\ pc = "loop"
    /\ mode = RUN
    /\ ~expired(Cur, timer)
    /\ get_pixel(Cur, Sampled[1], Sampled[2], Sampled[3]) # BLACK
    /\ get_pixel(Cur, Sampled[1] + 1, Sampled[2] + 1, Sampled[3]) # BLACK
    /\ get_pixel(Cur, Sampled[1] + 1, Sampled[2], Sampled[3]) = BLACK
    /\ get_pixel(Cur, Sampled[1], Sampled[2] + 1, Sampled[3]) = BLACK
    /\ side = 1

\* C21: in the text of displayText each of the character codes 17..32
\* selects a colour for the characters that follow (code c the colour
\* c mod 16, so that all of 0..15 can be selected), code 16 inverts their
\* columns, the codes 1..NUMBER_OF_FONTS select their font, and none of
\* these codes is itself painted as a character.
C21_ControlCodes ==
    (call.op = "displayText" /\ call.st[1] \in 1 .. 32) =>
        \A i \in DOMAIN call.cols :
            /\ call.cols[i].code = call.st[2]
            /\ call.st[1] \in 17 .. 32 =>
                  call.cols[i].color = call.st[1] % 16
            /\ call.st[1] = 16 => call.cols[i].invert # 0
            /\ call.st[1] \in 1 .. NUMBER_OF_FONTS =>
                  call.cols[i].font = call.st[1] - 1

\* the simulator state: rest counter, side flag, generator state and the
\* time of the latest transfer
SimState == <<static_counter, side, rnd, last_drop>>

\* C22: the simulator is advanced in RUN mode only, once per pass: the
\* blocks of a pass that reaches line 563 in SET or ALARM mode, and the
\* handlers of the push buttons in every mode, leave rest counter, side
\* flag, generator state and the time of the latest transfer as they are,
\* as does every step that begins and ends outside RUN mode; the blocks of
\* a pass that reaches line 563 in RUN mode draw one number from the
\* generator.
C22_OnlyInRun ==
    [][/\ (pc = "blocks" /\ mode # RUN) => SimState' = SimState
       /\ pc \in {"s1", "s2", "s3"} => SimState' = SimState
       /\ (mode # RUN /\ mode' # RUN) => SimState' = SimState
       /\ (pc = "blocks" /\ mode = RUN) => rnd' = random(rnd, 0)]_vars

\* a pass spent in SET mode that was entered from ALARM mode
C22_IdleInSet ==
    /\ mode = SET
    /\ pc = "loop"
    /\ inputs = 1
    /\ horizon = 0
    /\ static_counter = 255

Refilled(s) ==
    /\ \A x \in 0 .. 7, y \in 0 .. 7 :
         /\ get_pixel(s, x, y, UPPER) = IF x + y > 3 THEN YELLOW ELSE BLACK
         /\ get_pixel(s, x, y, LOWER) = BLACK
    /\ Cardinality(Grains(s)) = GRAINS_TOTAL
    /\ s.mode = RUN
    /\ s.drop_cycle = times(4 * s.minute + s.quarter)

\* the handler tested in this step has found its input active (each of the
\* handlers waits and none of the steps without input does)
Handled == timer' # timer

\* C24: push button S3, handled in SET, RUN or ALARM mode, leaves the mode
\* RUN, the upper bulb refilled, every other pixel black and drop_cycle the
\* table value of the time setting; so does a tilt met in SET or ALARM
\* mode; a tilt met in RUN mode leaves the frame buffer and the mode as they
\* are.
C24_Restart ==
    [][/\ (pc = "s3" /\ Handled) => Refilled(Cur')
       /\ (pc = "loop" /\ Handled /\ mode # RUN) => Refilled(Cur')
       /\ (pc = "loop" /\ Handled /\ mode = RUN) =>
             (screen' = screen /\ mode' = RUN)]_vars

\* push button S3 has restarted the hourglass from ALARM mode
C24_RestartedFromAlarm ==
    /\ pc = "blocks"
    /\ inputs = 1
    /\ static_counter = 255
    /\ Refilled(Cur)

\* the pause that the time setting of state s asks for, by halving
\* SIM_SPEED below DROP_CYCLE(30) and again below DROP_CYCLE(15)
Pause(s) ==
    IF times(4 * s.minute + s.quarter) < DROP_CYCLE(15) THEN SIM_SPEED \div 4
    ELSE IF times(4 * s.minute + s.quarter) < DROP_CYCLE(30)
    THEN SIM_SPEED \div 2
    ELSE SIM_SPEED

\* C25: the pause of the animation gets shorter with the time setting:
\* every step of a pass leaves the hourglass, if in RUN mode, with
\* sim_speed at SIM_SPEED for a drop cycle of at least DROP_CYCLE(30), at
\* half of it below DROP_CYCLE(30) and at half of that again below
\* DROP_CYCLE(15), so that the preset of 10 s runs with a shorter pause than
\* that of 15 s.
C25_ShorterPause ==
    [][mode' = RUN =>
          /\ sim_speed' = Pause(Cur')
          /\ get_drop_cycle([Cur EXCEPT !.minute = 0,
                                        !.quarter = 0]).sim_speed
               < get_drop_cycle([Cur EXCEPT !.minute = 0,
                                            !.quarter = 1]).sim_speed]_vars

\* the pixel <<column, row>> of the display, as Changed names it, that
\* holds cell (x, y) of the bulb in state s
Pixel(s, x, y, bulb) ==
    <<phys_x(x, bulb, s.gravity) + 1, phys_y(y, s.gravity)>>

\* C26: the relaxation step of a pass moves at most one grain, by one step:
\* it changes no pixel but that of the cell sampled and that of one of the
\* cells (x+1, y+1), (x+1, y), (x, y+1) of the same bulb inside 0..7 x 0..7;
\* a grain that leaves the cell sampled arrives, ORANGE, at such a cell,
\* which was empty; a grain that cannot (at x = 7 or y = 7 some of the
\* cells do not exist) stays; the diagonal cell, if empty, is the one taken.
C26_OneStep ==
    (pc = "blocks" /\ mode = RUN) =>
        \A a \in {timed_drop(Cur, timer, timer)} :
        \A b \in {sample(a)} :
        \A c \in {Sampled} :
            LET x == c[1]
                y == c[2]
                bulb == c[3]
                targets == {t \in {<<x + 1, y + 1>>, <<x + 1, y>>,
                                   <<x, y + 1>>} :
                              t[1] <= 7 /\ t[2] <= 7}
                arrived == {t \in targets :
                              Pixel(a, t[1], t[2], bulb) \in Changed(a, b)}
            IN  /\ Changed(a, b) \subseteq
                      {Pixel(a, x, y, bulb)}
                        \cup {Pixel(a, t[1], t[2], bulb) : t \in targets}
                /\ Cardinality(arrived) <= 1
                /\ \A t \in arrived :
                      /\ get_pixel(a, t[1], t[2], bulb) = BLACK
                      /\ get_pixel(b, t[1], t[2], bulb) = ORANGE
                      /\ get_pixel(a, x, y, bulb) # BLACK
                      /\ get_pixel(b, x, y, bulb) = BLACK
                /\ get_pixel(b, x, y, bulb) # get_pixel(a, x, y, bulb) =>
                      \/ Cardinality(arrived) = 1
                      \/ get_pixel(b, x, y, bulb) = YELLOW
                /\ (/\ get_pixel(a, x, y, bulb) # BLACK
                    /\ get_pixel(a, x + 1, y + 1, bulb) = BLACK) =>
                      arrived = {<<x + 1, y + 1>>}

\* a pass that samples a grain at the edge x = 7 of its bulb, which moves
\* along the edge
C26_AlongEdge ==
    /\ pc = "blocks"
    /\ mode = RUN
    /\ Sampled[1] = 7
    /\ Sampled[2] < 7
    /\ \E a \in {timed_drop(Cur, timer, timer)} :
         /\ get_pixel(a, 7, Sampled[2], Sampled[3]) # BLACK
         /\ get_pixel(a, 7, Sampled[2] + 1, Sampled[3]) = BLACK
         /\ get_pixel(sample(a), 7, Sampled[2] + 1, Sampled[3]) = ORANGE
         /\ get_pixel(sample(a), 7, Sampled[2], Sampled[3]) = BLACK

\* C27: whatever buttons are pressed and whatever tilts are met, minute
\* stays in 0..5 and quarter in 0..3, so that 4 * minute + quarter is an
\* index of the table times; minute and quarter change only in the
\* handlers of S1 and S2 and only in SET mode; S1 or S2 handled in another
\* mode only sets the mode to SET; and in RUN mode drop_cycle is the table
\* entry of the time setting.
C27_Setting ==
    /\ [](/\ minute \in 0 .. MAX_MINUTES
          /\ quarter \in 0 .. 3
          /\ 4 * minute + quarter \in 0 .. NUM_TIMES - 1
          /\ mode = RUN => drop_cycle = times(4 * minute + quarter))
    /\ [][/\ (minute' # minute \/ quarter' # quarter) =>
                (mode = SET /\ mode' = SET /\ pc \in {"s1", "s2"})
          /\ (pc \in {"s1", "s2"} /\ Handled /\ mode # SET) =>
                /\ mode' = SET
                /\ minute' = minute
                /\ quarter' = quarter
                /\ drop_cycle' = drop_cycle]_vars

\* minute has gone from 5 round to 0 in SET mode, the drop cycle still
\* that of 5 min 45 s
C27_MinuteWrapped ==
    /\ mode = SET
    /\ minute = 0
    /\ quarter = 0
    /\ inputs = 2
    /\ drop_cycle = times(4 * MAX_MINUTES + 3)

\* the frame buffers that the interrupt may find in the course of the RUN
\* block entered in state s: drop (lines 364-365) and move_grain (lines
\* 299-301) clear the cell that the grain leaves before they set the cell
\* where it arrives, move_grain with a pause in between
run_frames(s) ==
    Only({ {s.screen, a.screen, b.screen}
             \cup (IF a.screen # s.screen
                   THEN {set_pixel(s, 7, 7, UPPER, BLACK).screen} ELSE {})
             \cup (IF /\ get_pixel(a, c[1], c[2], c[3]) # BLACK
                      /\ get_pixel(b, c[1], c[2], c[3]) = BLACK
                   THEN {set_pixel(a, c[1], c[2], c[3], BLACK).screen}
                   ELSE {})
           : <<a, b, c>> \in { <<d, sample(d), sampled(s)>>
                               : d \in {timed_drop(s, s.timer, s.timer)} } })

\* the number of pixels of a frame buffer that are not black: those with a
\* bit set in one of the planes
NonBlack(scr) ==
    Cardinality({q \in (1 .. NUM_PIXCOLS) \X (0 .. ROWS_PER_BLOCK - 1) :
                    \/ (scr[q[1]].lsb \div pixcol_mask(q[2])) % 4 # 0
                    \/ (scr[q[1]].msb \div pixcol_mask(q[2])) % 4 # 0})

\* C28: in RUN mode the two bulbs hold 54 grains at the begin of every
\* pass, whatever transfers, relaxation steps, tilts and restarts came
\* before, and so the frame buffer 54 pixels that are not black; a frame
\* buffer that the interrupt finds in the course of the RUN block holds 54
\* or, while a grain is on its way, 53.
C28_NoGrainLost ==
    /\ (mode = RUN /\ pc = "loop") =>
          /\ Cardinality(Grains(Cur)) = GRAINS_TOTAL
          /\ NonBlack(screen) = GRAINS_TOTAL
    /\ (mode = RUN /\ pc = "blocks") =>
          \A f \in run_frames(Cur) :
              NonBlack(f) \in {GRAINS_TOTAL - 1, GRAINS_TOTAL}

\* a RUN block in which a grain drops and a grain moves, and the interrupt
\* finds 53 grains on the way
C28_OnTheWay ==
    /\ mode = RUN
    /\ pc = "blocks"
    /\ expired(Cur, timer)
    /\ Ready(Cur)
    /\ Cardinality(run_frames(Cur)) = 5
    /\ \E f \in run_frames(Cur) : NonBlack(f) = GRAINS_TOTAL - 1

\* C29: a change of gravity leaves the frame buffer as it is and renames
\* its cells: cell (x, y) of a bulb under one direction of gravity is the
\* pixel of cell (7 - x, 7 - y) of the other bulb under the other direction.
\* So sense_gravity, finding the sensor changed, and the tilt block in RUN
\* mode leave each pixel as it was, the lower bulb of before is the upper
\* bulb of after, turned by 180 degrees, and the number of grains is the
\* same.
C29_Relabel ==
    /\ [](pc = "loop" =>
             \A t \in {sense_gravity(Cur, 1 - sensor).st} :
                /\ t.gravity # gravity
                /\ t.screen = screen
                /\ \A c \in Cells :
                      Pixel(t, c[2], c[3], c[1])
                        = Pixel(Cur, 7 - c[2], 7 - c[3], 1 - c[1]))
    /\ [][(pc = "loop" /\ mode = RUN /\ gravity' # gravity) =>
             /\ screen' = screen
             /\ \A c \in Cells :
                   get_pixel(Cur', c[2], c[3], c[1])
                     = get_pixel(Cur, 7 - c[2], 7 - c[3], 1 - c[1])
             /\ Cardinality(Grains(Cur')) = Cardinality(Grains(Cur))]_vars

\* a tilt in RUN mode has made the bulb that had received grains the upper
\* one
C29_TurnedOver ==
    /\ pc = "s1"
    /\ mode = RUN
    /\ inputs > 0
    /\ gravity = UP
    /\ Cardinality({c \in Grains(Cur) : c[1] = UPPER}) \in 1 .. 10
    /\ get_pixel(Cur, 0, 0, LOWER) = BLACK
    /\ get_pixel(Cur, 7, 7, UPPER) # BLACK

\* cell with the y coordinate taken from bit 3 on
cell_y_from_bit3(r) == <<r % 2, (r \div 2) % 8, (r \div 8) % 8>>

\* the cell <<bulb, x, y>> that the RUN block samples for the generator
\* output r (line 577): simulate_grain(r >> 1, r >> 4, r & 1), which keeps
\* the three low bits of x and of y (line 317)
cell(r) == <<r % 2, (r \div 2) % 8, (r \div 16) % 8>>

\* the number of times that the outputs i .. i + 254 sample the cell c
visits(i, c) == Cardinality({j \in i .. i + 254 : cell(outs[j]) = c})

\* C30: any 255 consecutive outputs of the generator, from the static
\* initialiser or from a seed and with no seed taken in between, sample
\* every one of the 128 cells: the cell (0, 0) of the upper bulb once,
\* every other cell twice.
C30_Exhaustive ==
    \A i \in 1 .. Len(outs) - 254 :
        \A c \in Cells :
            visits(i, c) = IF c = <<UPPER, 0, 0>> THEN 1 ELSE 2

\* 255 outputs and one more after a seed, the window of the last 255
\* beginning behind the first output
C30_FullWindow ==
    /\ Len(outs) = MaxDraws
    /\ seed0 # 0
    /\ outs[MaxDraws] = outs[MaxDraws - 255]
    /\ visits(MaxDraws - 254, <<LOWER, 7, 7>>) = 2

\* C31: a check of the drop cycle that finds it expired and moves no grain,
\* the exit cell being empty or the entry cell occupied, is followed by the
\* next check that finds it expired no earlier than drop_cycle interrupts
\* later.
C31_FullCycleAfterIdle == (chk.lap >= 0 /\ chk.held) => chk.lap >= drop_cycle

\* C32: main() reaches while(1) with last_drop = timer and the counter of
\* simulate_grain 0; from then on last_drop and the counter change only in
\* the RUN block (lines 569-583) of a pass that finds the mode RUN there:
\* the tilt block, the handlers of S1, S2 and S3 with their restarts and
\* the SET and ALARM blocks leave both as they are, so that the RUN block
\* after a restart finds the values that the run before has left.
C32_OnlyRunBlock ==
    /\ last_drop = timer
    /\ static_counter = 0
    /\ [][(last_drop' # last_drop \/ static_counter' # static_counter)
             => (pc = "blocks" /\ mode = RUN)]_vars

\* a tilt has restarted the hourglass from ALARM mode: the counter still
\* holds the 255 of the alarm and last_drop the time of a check of the run
\* before, more than a drop cycle ago
C32_LeftByRunBefore ==
    /\ pc = "s1"
    /\ inputs = 1
    /\ Refilled(Cur)
    /\ static_counter = 255
    /\ expired(Cur, timer)

=============================================================================
